---- MODULE Spec2Model ----
(***************************************************************************)
(* deployment-queue-cli: the authentication layer (auth.py: the credential *)
(* store, the GitHub organisation listing, the OAuth Device Flow login     *)
(* loop, the personal-access-token login, the organisation switch and the  *)
(* organisation listing command), the deployment API client (client.py),   *)
(* the deployment commands of the CLI (main.py) and the tools of the MCP   *)
(* server (mcp_server.py).                                                 *)
(*                                                                         *)
(* Spec runs the authentication commands one at a time, StoreSpec the      *)
(* credential store over every file, mode and environment, ListingSpec the *)
(* paginated organisation listing, ApiSpec the deployment commands and     *)
(* tools against every response of the API, SaveSpec store_credentials     *)
(* statement by statement, ConcSpec a login and a switch as two processes  *)
(* on one credentials file.                                                *)
(*                                                                         *)
(* Time is counted in whole seconds.  asyncio.sleep(n) takes n seconds, a  *)
(* token-exchange round trip takes 0..MaxNetDelay seconds, everything else *)
(* takes none.                                                             *)
(***************************************************************************)
EXTENDS Integers, Sequences, FiniteSets, TLC

----------------------------------------------------------------------------
(* Bounds of the model *)

\* largest expires_in the device-code endpoint answers
MaxExpiresIn == 3
\* longest network round trip, in seconds
MaxNetDelay == 1
\* largest interval the device-code endpoint answers (it may also omit it)
MaxServerInterval == 1

(* Program constants *)

\* device_data.get("interval", 5)
DefaultInterval == 5
\* interval += 5
SlowDownIncrement == 5
\* if page > 10: break
PageLimit == 10

----------------------------------------------------------------------------
(* Values *)

\* Python's None / a key that a dict does not have
Absent == "<absent>"

Keys == {"github_token", "organisation", "username"}

\* tokens the token-exchange endpoint may hand out
Tokens == {"gho_1", "gho_2"}
\* logins the identity endpoint may answer
Logins == {"alice"}
\* organisation names a user may ask for
OrgArgs == {"Acme", "zeta"}
\* organisation logins the provider may list
OrgLogins == {"acme", "Other"}

\* str.lower()
Lower(s) ==
    CASE s = "Acme" -> "acme"
      [] s = "Other" -> "other"
      [] OTHER -> s

\* Python's order of the organisation names (code point order)
StrOrder == <<"Acme", "Other", "acme", "other", "zeta">>

RECURSIVE SortedFrom(_, _)
SortedFrom(S, i) ==
    IF i > Len(StrOrder) THEN <<>>
    ELSE IF StrOrder[i] \in S THEN <<StrOrder[i]>> \o SortedFrom(S, i + 1)
    ELSE SortedFrom(S, i + 1)

\* sorted(user_orgs)
Sorted(S) == SortedFrom(S, 1)

----------------------------------------------------------------------------
(* The credentials file: its text, as far as json.loads tells texts apart *)

EmptyMembers == [k \in {} |-> ""]

JsonObject(members) == [type |-> "object", members |-> members]
JsonOther(t) == [type |-> t, members |-> EmptyMembers]

\* permission bits of a file: the octal digits of owner, group and other
Mode600 == <<6, 0, 0>>
\* the mode of a file that write_text creates (0666 under umask 022)
CreateMode == <<6, 4, 4>>
NoMode == <<0, 0, 0>>

\* a file whose text json.loads parses to value v
JsonText(v) == [exists |-> TRUE, json |-> TRUE, val |-> v, mode |-> CreateMode]
\* a file whose text json.loads rejects
GarbageText ==
    [exists |-> TRUE, json |-> FALSE, val |-> JsonOther("null"), mode |-> CreateMode]
\* no file at CREDENTIALS_FILE
Missing ==
    [exists |-> FALSE, json |-> FALSE, val |-> JsonOther("null"), mode |-> NoMode]

Credentials(token, org, user) ==
    [github_token |-> token, organisation |-> org, username |-> user]

OldCreds == Credentials("ghp_old", "acme", "alice")

\* files found on disk when the program starts
InitialFiles ==
    {Missing, GarbageText}
    \cup {JsonText(JsonOther(t)) : t \in {"array", "string"}}
    \cup {JsonText(JsonObject([k \in K |-> OldCreds[k]])) :
             K \in {{}, Keys} \cup {Keys \ {k} : k \in Keys}}

\* bug: the token is written under another key than the one read back
json_dumps_WrongKey(creds) ==
    JsonText(JsonObject([k \in {"token", "organisation", "username"} |->
                            IF k = "token" THEN creds.github_token ELSE creds[k]]))

\* json.dumps({...}) of the three fields
json_dumps(creds) == JsonText(JsonObject([k \in Keys |-> creds[k]]))

\* json.loads(text)
json_loads(text) ==
    IF text.json THEN [ok |-> TRUE, val |-> text.val]
    ELSE [ok |-> FALSE, val |-> JsonOther("null")]

\* data[key] on a parsed JSON value: the value, KeyError or TypeError
Subscript(data, key) ==
    IF data.type = "object"
    THEN IF key \in DOMAIN data.members
         THEN [exc |-> Absent, val |-> data.members[key]]
         ELSE [exc |-> "KeyError", val |-> ""]
    ELSE [exc |-> "TypeError", val |-> ""]

Return(v) == [exc |-> Absent, value |-> v]
Raise(e) == [exc |-> e, value |-> <<>>]
None == <<>>
Some(c) == <<c>>

\* the first exception the three subscripts of the constructor call raise
FirstExc(data) ==
    LET a == Subscript(data, "github_token")
        b == Subscript(data, "organisation")
        c == Subscript(data, "username")
    IN  IF a.exc # Absent THEN a.exc
        ELSE IF b.exc # Absent THEN b.exc
        ELSE c.exc

\* except (json.JSONDecodeError, KeyError)
CaughtByLoad == {"JSONDecodeError", "KeyError"}

get_stored_credentials(file) ==
    IF ~file.exists THEN Return(None)
    ELSE LET parsed == json_loads(file)
             exc == IF ~parsed.ok THEN "JSONDecodeError" ELSE FirstExc(parsed.val)
         IN  IF exc = Absent
             THEN Return(Some(Credentials(
                      Subscript(parsed.val, "github_token").val,
                      Subscript(parsed.val, "organisation").val,
                      Subscript(parsed.val, "username").val)))
             ELSE IF exc \in CaughtByLoad THEN Return(None)
             ELSE Raise(exc)

\* Path.write_text(text): an existing file keeps its mode
write_text(file, text) ==
    [text EXCEPT !.mode = IF file.exists THEN file.mode ELSE CreateMode]

\* Path.chmod(mode)
chmod(file, mode) == [file EXCEPT !.mode = mode]

\* bug: the chmod after the write is missing
store_credentials_NoChmod(file, creds) == write_text(file, json_dumps(creds))

\* the file after store_credentials(creds)
store_credentials(file, creds) ==
    chmod(write_text(file, json_dumps(creds)), Mode600)

\* the exception of Path.unlink()
UnlinkExc(file) == IF file.exists THEN Absent ELSE "FileNotFoundError"

\* bug: unlink without the exists() test
ClearExc_NoGuard(file) == UnlinkExc(file)

\* the exception clear_credentials() ends with (Absent: it returns)
ClearExc(file) == IF file.exists THEN UnlinkExc(file) ELSE Absent

\* the file after clear_credentials()
clear_credentials(file) == IF file.exists THEN Missing ELSE file

\* the files get_stored_credentials() reads: CREDENTIALS_FILE when it exists
FilesRead(file) == IF file.exists THEN {"CREDENTIALS_FILE"} ELSE {}

----------------------------------------------------------------------------
(* GitHub: the paginated organisation listing *)

\* what GET /user/orgs answers during one call of _get_user_organisations:
\* page 1, page 2, the pages 3..lastPage (every page behind lastPage is
\* empty), and the page whose status is an error (0: none).  Pages behind
\* an empty page or an error are never requested, so they are left empty
\* here; a provider that never runs out of pages has lastPage > PageLimit.
Listings ==
    {l \in [page1 : SUBSET OrgLogins, page2 : {{}, {"Other"}},
            rest : {{}, {"Other"}}, lastPage : {PageLimit + 1},
            failAt : {0, 1, 2}] :
        /\ l.failAt = 1 => l.page1 = {}
        /\ (l.page1 = {} \/ l.failAt = 2) => l.page2 = {}
        /\ l.page2 = {} => l.rest = {}}

PageAt(listing, page) ==
    IF page = 1 THEN listing.page1
    ELSE IF page = 2 THEN listing.page2
    ELSE IF page <= listing.lastPage THEN listing.rest
    ELSE {}

\* bug: the loop gives up one page late
LimitReached_Late(page) == page > PageLimit + 1

\* if page > 10: break
LimitReached(page) == page > PageLimit

\* the while loop of _get_user_organisations, entered with orgs and page
RECURSIVE OrgsLoop(_, _, _)
OrgsLoop(listing, orgs, page) ==
    IF listing.failAt = page
    THEN [exc |-> "HTTPStatusError", value |-> {}, requests |-> page]
    ELSE LET page_orgs == PageAt(listing, page)
         IN  IF page_orgs = {}
             THEN [exc |-> Absent, value |-> orgs, requests |-> page]
             ELSE IF LimitReached(page + 1)
             THEN [exc |-> Absent, value |-> orgs \cup page_orgs, requests |-> page]
             ELSE OrgsLoop(listing, orgs \cup page_orgs, page + 1)

get_user_organisations(listing) == OrgsLoop(listing, {}, 1)

\* bug: the names are compared as they are written
IsMember_CaseSensitive(organisation, user_orgs) == organisation \in user_orgs

\* organisation.lower() in {org.lower() for org in user_orgs}
IsMember(organisation, user_orgs) ==
    Lower(organisation) \in {Lower(org) : org \in user_orgs}

\* bug: the message does not list the user's organisations
NotMemberMsg_NoList(organisation, user_orgs) ==
    <<"You are not a member of organisation", organisation,
      "Your organisations:">>

\* the not-a-member message of device_flow_login, pat_login, switch_organisation
NotMemberMsg(organisation, user_orgs) ==
    <<"You are not a member of organisation", organisation,
      "Your organisations:">> \o Sorted(user_orgs)

----------------------------------------------------------------------------
(* Outcomes of an operation *)

NoOutcome == [kind |-> "NONE", exc |-> Absent, msg |-> <<>>, ret |-> None]

Raised(kind, exc, msg) == [kind |-> kind, exc |-> exc, msg |-> msg, ret |-> None]

Returned(kind, creds) ==
    [kind |-> kind, exc |-> Absent, msg |-> <<>>, ret |-> Some(creds)]

NotLoggedIn ==
    Raised("FAILED", "ValueError",
           <<"Not logged in. Run 'deployment-queue-cli login' first.">>)

----------------------------------------------------------------------------
(* Device Flow: the classification of one token-exchange response *)

ErrorCodes ==
    {"authorization_pending", "slow_down", "expired_token", "access_denied",
     "unsupported_grant_type"}

\* token_data: the JSON object the token-exchange endpoint answers
TokenResponses ==
    [access_token : {Absent}, error : ErrorCodes \cup {Absent}]
    \cup [access_token : Tokens, error : {Absent, "slow_down"}]

HasToken(token_data) == token_data.access_token # Absent

\* bug: authorization_pending backs off like slow_down
NextInterval_AlsoOnPending(interval, error) ==
    IF error \in {"slow_down", "authorization_pending"}
    THEN interval + SlowDownIncrement ELSE interval

\* bug: "interval = 5" for "interval += 5"
NextInterval_Assign(interval, error) ==
    IF error = "slow_down" THEN SlowDownIncrement ELSE interval

\* the poll interval after a response without access_token
NextInterval(interval, error) ==
    IF error = "slow_down" THEN interval + SlowDownIncrement ELSE interval

\* bug: an unknown error code is taken for a transient one
ClassifyError_SwallowUnknown(error) ==
    CASE error = "expired_token" ->
            Raised("EXPIRED", "TimeoutError",
                   <<"Device code expired. Please try again.">>)
      [] error = "access_denied" ->
            Raised("DENIED", "PermissionError", <<"Authorization denied by user.">>)
      [] OTHER -> NoOutcome

\* the if/elif chain on token_data.get("error"): the exception raised, or
\* NoOutcome when the loop goes on
ClassifyError(error) ==
    CASE error \in {"authorization_pending", "slow_down"} -> NoOutcome
      [] error = "expired_token" ->
            Raised("EXPIRED", "TimeoutError",
                   <<"Device code expired. Please try again.">>)
      [] error = "access_denied" ->
            Raised("DENIED", "PermissionError", <<"Authorization denied by user.">>)
      [] OTHER -> Raised("FAILED", "Exception", <<"Unexpected error:", error>>)

\* bug: "<=" for "<"
LoopGoesOn_Inclusive(t, start_time, expires_in) == t - start_time <= expires_in

\* while time.time() - start_time < expires_in
LoopGoesOn(t, start_time, expires_in) == t - start_time < expires_in

TimedOut ==
    Raised("EXPIRED", "TimeoutError",
           <<"Authorization timed out. Please try again.">>)

----------------------------------------------------------------------------
(* The Deployment Queue API as DeploymentAPIClient sees it *)

\* a JSON value of a response body, as far as the program tells values
\* apart: its type, whether Python takes it for false ({}, [], null), its
\* "detail" member and its "status" member (Absent: it has none)
JsonValue(type, empty, detail, status) ==
    [type |-> type, empty |-> empty, detail |-> detail, status |-> status]

EmptyDict == JsonValue("object", TRUE, Absent, Absent)
PyNone == JsonValue("None", TRUE, Absent, Absent)
Deployment(status) == JsonValue("object", FALSE, Absent, status)

\* a body that response.json() parses to val
JsonBody(text, val) == [text |-> text, parses |-> TRUE, val |-> val]
\* a body that response.json() rejects
TextBody(text) == [text |-> text, parses |-> FALSE, val |-> PyNone]

Bodies ==
    {TextBody(""), TextBody("Internal Server Error"),
     JsonBody("{\"detail\": \"denied\"}", JsonValue("object", FALSE, "denied", Absent)),
     JsonBody("{}", EmptyDict),
     JsonBody("[]", JsonValue("array", TRUE, Absent, Absent)),
     JsonBody("[{\"id\": \"d1\"}]", JsonValue("array", FALSE, Absent, Absent)),
     JsonBody("null", JsonValue("null", TRUE, Absent, Absent)),
     JsonBody("{\"id\": \"d1\", \"status\": \"scheduled\"}", Deployment("scheduled")),
     JsonBody("{\"id\": \"d1\", \"status\": \"deployed\"}", Deployment("deployed"))}

StatusCodes == {200, 204, 302, 399, 400, 404, 500}

Responses == [status_code : StatusCodes, body : Bodies]

\* what a client method does: it returns value, or raises exc (with the
\* status_code and detail of a DeploymentAPIError)
ApiReturn(value) ==
    [exc |-> Absent, status_code |-> 0, detail |-> Absent, value |-> value]
ApiRaise(exc, status_code, detail) ==
    [exc |-> exc, status_code |-> status_code, detail |-> detail, value |-> PyNone]

\* response.json().get("detail", response.text), response.text when that
\* raises (no JSON, or JSON without a get method)
ErrorDetail(body) ==
    IF body.parses /\ body.val.type = "object" /\ body.val.detail # Absent
    THEN body.val.detail
    ELSE body.text

\* DeploymentAPIClient._handle_response
handle_response(response) ==
    IF response.status_code >= 400
    THEN ApiRaise("DeploymentAPIError", response.status_code,
                  ErrorDetail(response.body))
    ELSE IF response.status_code = 204 THEN ApiReturn(EmptyDict)
    ELSE IF response.body.parses THEN ApiReturn(response.body.val)
    ELSE ApiRaise("JSONDecodeError", 0, Absent)

\* DeploymentAPIClient.get_current, from the response on
get_current(response) ==
    IF response.status_code = 404 THEN ApiReturn(PyNone)
    ELSE handle_response(response)

\* Python's truth of an optional string
Truthy(v) == v \notin {Absent, ""}

\* the query parameters of DeploymentAPIClient.list_deployments: limit
\* always, the others when they are given (limits are written as the
\* decimal text that reaches the query string)
ListParams(environment, status, provider, trigger, limit) ==
    [limit |-> limit,
     environment |-> IF Truthy(environment) THEN environment ELSE Absent,
     status |-> IF Truthy(status) THEN status ELSE Absent,
     provider |-> IF Truthy(provider) THEN provider ELSE Absent,
     trigger |-> IF Truthy(trigger) THEN trigger ELSE Absent]

\* limit: int = 20
DefaultLimit == "20"

----------------------------------------------------------------------------
VARIABLES
    credFile,    \* the file at CREDENTIALS_FILE
    now,         \* time.time(), in seconds since the invocation started
    df,          \* device_flow_login: its position and locals
    sw,          \* switch_organisation: its position and locals
    lo,          \* list_available_organisations: its position and locals
    hist,        \* what the running invocation has done so far (history)
    pl,          \* pat_login: its position and locals
    env,         \* the Settings (environment variables) of the process
    customFile,  \* the file settings.credentials_file names
    st,          \* the last credential-store operation and what it gave
    ls,          \* the last organisation listing and what it gave
    api,         \* the last call of a DeploymentAPIClient method and what it gave
    cmd          \* a deployment command or MCP tool call: its position and locals

vars == <<credFile, now, df, sw, lo, hist, pl, env, customFile, st, ls, api, cmd>>

DfIdle ==
    [pc |-> "idle", organisation |-> Absent, interval |-> 0, expires_in |-> 0,
     start_time |-> 0, github_token |-> Absent, username |-> Absent,
     outcome |-> NoOutcome]

SwIdle ==
    [pc |-> "idle", organisation |-> Absent, creds |-> None, outcome |-> NoOutcome]

LoIdle == [pc |-> "idle", creds |-> None, outcome |-> NoOutcome, orgs |-> <<>>]

\* calls: the GitHub requests pat_login has made, in order; user_status: the
\* status of the /user response
PlIdle ==
    [pc |-> "idle", pat |-> Absent, organisation |-> Absent, username |-> Absent,
     user_status |-> 0, calls |-> <<>>, outcome |-> NoOutcome]

\* history of one invocation
HistIdle ==
    [fileBefore |-> Missing,   \* credFile when the invocation started
     loadBefore |-> Return(None), \* get_stored_credentials() at that moment
     stores |-> 0,             \* calls of store_credentials
     net |-> {},               \* the endpoints requested
     interval0 |-> 0,          \* the poll interval on entering the loop
     slowDowns |-> 0,          \* slow_down answers
     polls |-> 0,              \* token-exchange requests issued
     answers |-> 0,            \* token-exchange responses received
     onlyTransient |-> TRUE,   \* every answer was authorization_pending/slow_down
     reqAt |-> 0,              \* time the last token-exchange request was issued
     reqInterval |-> 0,        \* the sleep before it
     respAt |-> 0,             \* time its response arrived
     lastResp |-> [access_token |-> Absent, error |-> Absent],
     memberOrgs |-> {},        \* the organisations the membership check saw
     msgOrgs |-> None]         \* the organisations fetched for the error message

Idle == df.pc = "idle" /\ sw.pc = "idle" /\ lo.pc = "idle" /\ pl.pc = "idle"

Begin == [HistIdle EXCEPT !.fileBefore = credFile,
                          !.loadBefore = get_stored_credentials(credFile)]

\* Settings(): no DEPLOYMENT_QUEUE_CLI_* variable is set
NoSettings ==
    [github_token |-> Absent, organisation |-> Absent, username |-> Absent,
     credentials_file |-> Absent]

\* op: the operation last applied to the store; creds: what it was given;
\* saved: the Credentials of the last store_credentials since the last
\* clear; result, reads: what get_stored_credentials returned and read;
\* exc: the exception of a clear; clears: clear_credentials calls in a row
StIdle ==
    [op |-> "none", creds |-> None, saved |-> None, fileBefore |-> Missing,
     result |-> Return(None), reads |-> {}, authenticated |-> FALSE,
     exc |-> Absent, clears |-> 0]

LsIdle ==
    [op |-> "none", organisation |-> Absent, member |-> FALSE,
     listing |-> [page1 |-> {}, page2 |-> {}, rest |-> {}, lastPage |-> 0,
                  failAt |-> 0],
     result |-> [exc |-> Absent, value |-> {}, requests |-> 0]]

\* the arguments of a command or tool call (Absent: not given)
NoArgs ==
    [deployment_id |-> Absent, status |-> Absent, yes |-> FALSE, all |-> FALSE,
     provider |-> Absent, trigger |-> Absent, limit |-> DefaultLimit]

\* the text a command prints last or a tool call returns
Text(kind, status_code, msg) ==
    [kind |-> kind, status_code |-> status_code, msg |-> msg]
NoText == Text("none", 0, "")

\* a request to the deployment API
Request(op, id, payload) == [op |-> op, id |-> id, payload |-> payload]
NoPayload == [none |-> TRUE]

\* no response has come yet
NoResponse == ApiRaise("no response", 0, "")

\* surface: "cli" or "mcp"; name: the command or tool; step: the request
\* awaited ("get": the deployment looked up first, "final": the one the
\* command is for); calls: the API requests issued; resolved: whether
\* get_stored_credentials was called; got: what the client method made of
\* the last response; d: the deployment looked up; exit:
\* the exit code of the CLI; raised: the exception the command body or the
\* tool handler raised; exc: the exception that escapes; out: the text
CmdIdle ==
    [pc |-> "idle", surface |-> "none", name |-> "none", args |-> NoArgs,
     step |-> "none", calls |-> <<>>, resolved |-> FALSE, load |-> Return(None),
     got |-> NoResponse, d |-> PyNone, warned |-> FALSE, asked |-> FALSE, answer |-> FALSE,
     exit |-> None, raised |-> Absent, exc |-> Absent, out |-> NoText]

ApiIdle ==
    [op |-> "none", response |-> [status_code |-> 0, body |-> TextBody("")],
     result |-> ApiReturn(PyNone)]

Init ==
    /\ credFile \in InitialFiles
    /\ now = 0
    /\ df = DfIdle
    /\ sw = SwIdle
    /\ lo = LoIdle
    /\ hist = HistIdle
    /\ pl = PlIdle
    /\ env = NoSettings
    /\ customFile = Missing
    /\ st = StIdle
    /\ ls = LsIdle
    /\ api = ApiIdle
    /\ cmd = CmdIdle

----------------------------------------------------------------------------
(* clear_credentials, the whole of the logout command's state change *)

Logout ==
    /\ Idle
    /\ credFile' = clear_credentials(credFile)
    /\ UNCHANGED <<now, df, sw, lo, hist, pl, env, customFile, st, ls, api, cmd>>

----------------------------------------------------------------------------
(* device_flow_login *)

\* device_data of the device-code response: interval may be missing (then
\* DefaultInterval), a given interval is at least 1 s; expires_in is given
\* (the default of 900 s, taken when it is missing, is beyond MaxExpiresIn)
DeviceData ==
    [interval : {None} \cup {Some(i) : i \in 1..MaxServerInterval},
     expires_in : 0..MaxExpiresIn]

\* dict.get(key, default) for a value that may be missing
DictGet(opt, default) == IF opt = None THEN default ELSE opt[1]

\* GET /user: the status and, on 200, the login
UserInfoResponses == [status : {200, 401, 500}, login : Logins]

HttpError == Raised("HTTP_ERROR", "HTTPStatusError", <<>>)

Interrupted == Raised("INTERRUPTED", "CancelledError", <<>>)

NoClientId ==
    Raised("FAILED", "ValueError", <<"GitHub client ID not configured.">>)

Finish(rec, outcome) == [rec EXCEPT !.pc = "done", !.outcome = outcome]

\* bug: the credentials are stored before the membership check is looked at
FileAfterCheck_StoreFirst(file, member, creds) == store_credentials(file, creds)

\* bug: the test of the membership check is inverted
FileAfterCheck_Inverted(file, member, creds) ==
    IF ~member THEN store_credentials(file, creds) ELSE file

\* the credentials file after the membership check of a login or a switch:
\* store_credentials runs on the member path alone
FileAfterCheck(file, member, creds) ==
    IF member THEN store_credentials(file, creds) ELSE file

\* settings.github_client_id is read; without it nothing else happens
DflStart(organisation, has_client_id) ==
    /\ Idle
    /\ hist' = Begin
    /\ now' = 0
    /\ df' = IF has_client_id
             THEN [DfIdle EXCEPT !.pc = "device_code", !.organisation = organisation]
             ELSE Finish([DfIdle EXCEPT !.organisation = organisation], NoClientId)
    /\ UNCHANGED <<credFile, sw, lo, pl, env, customFile, st, ls, api, cmd>>

\* Step 1: the device-code request, and start_time = time.time()
DflDeviceCode(ok, device_data) ==
    /\ df.pc = "device_code"
    /\ IF ok
       THEN /\ df' = [df EXCEPT !.pc = "loop",
                                !.interval = DictGet(device_data.interval, DefaultInterval),
                                !.expires_in = device_data.expires_in,
                                !.start_time = now]
            /\ hist' = [hist EXCEPT !.net = @ \cup {"device_code"},
                                    !.interval0 = DictGet(device_data.interval, DefaultInterval)]
       ELSE /\ df' = Finish(df, HttpError)
            /\ hist' = [hist EXCEPT !.net = @ \cup {"device_code"}]
    /\ UNCHANGED <<credFile, now, sw, lo, pl, env, customFile, st, ls, api, cmd>>

\* the while condition; when it fails the code after the loop raises
DflLoopCheck ==
    /\ df.pc = "loop"
    /\ df' = IF LoopGoesOn(now, df.start_time, df.expires_in)
             THEN [df EXCEPT !.pc = "sleep"]
             ELSE Finish(df, TimedOut)
    /\ UNCHANGED <<credFile, now, sw, lo, hist, pl, env, customFile, st, ls, api, cmd>>

\* await asyncio.sleep(interval), then the token-exchange request is sent
DflSleep ==
    /\ df.pc = "sleep"
    /\ now' = now + df.interval
    /\ df' = [df EXCEPT !.pc = "poll"]
    /\ hist' = [hist EXCEPT !.polls = @ + 1, !.reqAt = now',
                            !.reqInterval = df.interval,
                            !.net = @ \cup {"token"}]
    /\ UNCHANGED <<credFile, sw, lo, pl, env, customFile, st, ls, api, cmd>>

\* the response arrives and is classified
DflPoll(token_data, d) ==
    /\ df.pc = "poll"
    /\ now' = now + d
    /\ hist' = [hist EXCEPT
                  !.respAt = now',
                  !.answers = @ + 1,
                  !.lastResp = token_data,
                  !.onlyTransient =
                      @ /\ ~HasToken(token_data)
                        /\ token_data.error \in {"authorization_pending", "slow_down"},
                  !.slowDowns =
                      IF ~HasToken(token_data) /\ token_data.error = "slow_down"
                      THEN @ + 1 ELSE @]
    /\ df' = IF HasToken(token_data)
             THEN [df EXCEPT !.pc = "user_info",
                             !.github_token = token_data.access_token]
             ELSE IF ClassifyError(token_data.error) = NoOutcome
             THEN [df EXCEPT !.pc = "loop",
                             !.interval = NextInterval(@, token_data.error)]
             ELSE Finish(df, ClassifyError(token_data.error))
    /\ UNCHANGED <<credFile, sw, lo, pl, env, customFile, st, ls, api, cmd>>

\* _get_user_info(github_token)
DflUserInfo(resp) ==
    /\ df.pc = "user_info"
    /\ df' = CASE resp.status = 200 ->
                    [df EXCEPT !.pc = "verify", !.username = resp.login]
               [] resp.status = 401 ->
                    Finish(df, Raised("FAILED", "ValueError", <<"Invalid GitHub token">>))
               [] OTHER -> Finish(df, HttpError)
    /\ hist' = [hist EXCEPT !.net = @ \cup {"user"}]
    /\ UNCHANGED <<credFile, now, sw, lo, pl, env, customFile, st, ls, api, cmd>>

\* _verify_org_membership; on a member, store_credentials and return
DflVerify(listing) ==
    LET r == get_user_organisations(listing)
        member == r.exc = Absent /\ IsMember(df.organisation, r.value)
        creds == Credentials(df.github_token, df.organisation, df.username)
    IN  /\ df.pc = "verify"
        /\ credFile' = FileAfterCheck(credFile, member, creds)
        /\ df' = IF r.exc # Absent THEN Finish(df, HttpError)
                 ELSE IF member THEN Finish(df, Returned("GRANTED", creds))
                 ELSE [df EXCEPT !.pc = "orgs_msg"]
        /\ hist' = [hist EXCEPT !.net = @ \cup {"orgs"},
                                !.memberOrgs = r.value,
                                !.stores = IF credFile' # credFile \/ member
                                           THEN @ + 1 ELSE @]
        /\ UNCHANGED <<now, sw, lo, pl, env, customFile, st, ls, api, cmd>>

\* the second _get_user_organisations, for the message of the ValueError
DflOrgsMsg(listing) ==
    LET r == get_user_organisations(listing)
    IN  /\ df.pc = "orgs_msg"
        /\ df' = IF r.exc # Absent THEN Finish(df, HttpError)
                 ELSE Finish(df, Raised("FAILED", "ValueError",
                                        NotMemberMsg(df.organisation, r.value)))
        /\ hist' = IF r.exc # Absent THEN hist
                   ELSE [hist EXCEPT !.msgOrgs = Some(r.value)]
        /\ UNCHANGED <<credFile, now, sw, lo, pl, env, customFile, st, ls, api, cmd>>

\* the places where device_flow_login awaits
DfAwaits == {"device_code", "sleep", "poll", "user_info", "verify", "orgs_msg"}

\* the task is cancelled (Ctrl-C) while it awaits
DflInterrupt ==
    /\ df.pc \in DfAwaits
    /\ df' = Finish(df, Interrupted)
    /\ UNCHANGED <<credFile, now, sw, lo, hist, pl, env, customFile, st, ls, api, cmd>>

\* the invocation is over
DflReturn ==
    /\ df.pc = "done"
    /\ df' = DfIdle
    /\ hist' = HistIdle
    /\ now' = 0
    /\ UNCHANGED <<credFile, sw, lo, pl, env, customFile, st, ls, api, cmd>>

DeviceFlow ==
    \/ \E o \in OrgArgs, c \in BOOLEAN : DflStart(o, c)
    \/ \E ok \in BOOLEAN, dd \in DeviceData : DflDeviceCode(ok, dd)
    \/ DflLoopCheck
    \/ DflSleep
    \/ \E t \in TokenResponses, d \in 0..MaxNetDelay : DflPoll(t, d)
    \/ \E r \in UserInfoResponses : DflUserInfo(r)
    \/ \E l \in Listings : DflVerify(l)
    \/ \E l \in Listings : DflOrgsMsg(l)
    \/ DflInterrupt
    \/ DflReturn

----------------------------------------------------------------------------
(* switch_organisation *)

\* an exception of get_stored_credentials passes through its caller
LoadCrashed(exc) == Raised("CRASHED", exc, <<>>)

\* bug: the "if not creds" test is missing
SessionOutcome_NoCheck(r) ==
    IF r.exc # Absent THEN LoadCrashed(r.exc) ELSE NoOutcome

\* creds = get_stored_credentials(); if not creds: raise ValueError(...)
\* r is what the load did; NoOutcome when the caller goes on
SessionOutcome(r) ==
    CASE r.exc # Absent -> LoadCrashed(r.exc)
      [] r.exc = Absent /\ r.value = None -> NotLoggedIn
      [] OTHER -> NoOutcome

SwStart(organisation) ==
    LET r == get_stored_credentials(credFile)
    IN  /\ Idle
        /\ hist' = Begin
        /\ now' = 0
        /\ sw' = IF SessionOutcome(r) # NoOutcome
                 THEN Finish([SwIdle EXCEPT !.organisation = organisation],
                             SessionOutcome(r))
                 ELSE [SwIdle EXCEPT !.pc = "verify",
                                     !.organisation = organisation,
                                     !.creds = r.value]
        /\ UNCHANGED <<credFile, df, lo, pl, env, customFile, st, ls, api, cmd>>

\* bug: the new organisation is not put into the new Credentials
SwitchedCreds_KeepOrganisation(creds, organisation) ==
    Credentials(creds.github_token, creds.organisation, creds.username)

\* bug: the token that was loaded is not carried over
SwitchedCreds_NoToken(creds, organisation) ==
    Credentials("", organisation, creds.username)

\* the Credentials switch_organisation builds from the loaded ones
SwitchedCreds(creds, organisation) ==
    Credentials(creds.github_token, organisation, creds.username)

\* _verify_org_membership(creds.github_token, organisation); on a member,
\* store_credentials(new_creds) and return
SwVerify(listing) ==
    LET r == get_user_organisations(listing)
        member == r.exc = Absent /\ IsMember(sw.organisation, r.value)
        new_creds == SwitchedCreds(sw.creds[1], sw.organisation)
    IN  /\ sw.pc = "verify"
        /\ credFile' = FileAfterCheck(credFile, member, new_creds)
        /\ sw' = IF r.exc # Absent THEN Finish(sw, HttpError)
                 ELSE IF member THEN Finish(sw, Returned("SWITCHED", new_creds))
                 ELSE [sw EXCEPT !.pc = "orgs_msg"]
        /\ hist' = [hist EXCEPT !.net = @ \cup {"orgs"},
                                !.memberOrgs = r.value,
                                !.stores = IF credFile' # credFile \/ member
                                           THEN @ + 1 ELSE @]
        /\ UNCHANGED <<now, df, lo, pl, env, customFile, st, ls, api, cmd>>

\* the second _get_user_organisations, for the message of the ValueError
SwOrgsMsg(listing) ==
    LET r == get_user_organisations(listing)
    IN  /\ sw.pc = "orgs_msg"
        /\ sw' = IF r.exc # Absent THEN Finish(sw, HttpError)
                 ELSE Finish(sw, Raised("FAILED", "ValueError",
                                        NotMemberMsg(sw.organisation, r.value)))
        /\ hist' = IF r.exc # Absent THEN hist
                   ELSE [hist EXCEPT !.msgOrgs = Some(r.value)]
        /\ UNCHANGED <<credFile, now, df, lo, pl, env, customFile, st, ls, api, cmd>>

SwInterrupt ==
    /\ sw.pc \in {"verify", "orgs_msg"}
    /\ sw' = Finish(sw, Interrupted)
    /\ UNCHANGED <<credFile, now, df, lo, hist, pl, env, customFile, st, ls, api, cmd>>

SwReturn ==
    /\ sw.pc = "done"
    /\ sw' = SwIdle
    /\ hist' = HistIdle
    /\ UNCHANGED <<credFile, now, df, lo, pl, env, customFile, st, ls, api, cmd>>

SwitchOrganisation ==
    \/ \E o \in OrgArgs : SwStart(o)
    \/ \E l \in Listings : SwVerify(l)
    \/ \E l \in Listings : SwOrgsMsg(l)
    \/ SwInterrupt
    \/ SwReturn

----------------------------------------------------------------------------
(* list_available_organisations *)

LoStart ==
    LET r == get_stored_credentials(credFile)
    IN  /\ Idle
        /\ hist' = Begin
        /\ now' = 0
        /\ lo' = IF SessionOutcome(r) # NoOutcome
                 THEN Finish(LoIdle, SessionOutcome(r))
                 ELSE [LoIdle EXCEPT !.pc = "fetch", !.creds = r.value]
        /\ UNCHANGED <<credFile, df, sw, pl, env, customFile, st, ls, api, cmd>>

\* orgs = await _get_user_organisations(creds.github_token); sorted(orgs)
LoFetch(listing) ==
    LET r == get_user_organisations(listing)
    IN  /\ lo.pc = "fetch"
        /\ lo' = IF r.exc # Absent THEN Finish(lo, HttpError)
                 ELSE [lo EXCEPT !.pc = "done", !.orgs = Sorted(r.value)]
        /\ hist' = [hist EXCEPT !.net = @ \cup {"orgs"}]
        /\ UNCHANGED <<credFile, now, df, sw, pl, env, customFile, st, ls, api, cmd>>

LoInterrupt ==
    /\ lo.pc = "fetch"
    /\ lo' = Finish(lo, Interrupted)
    /\ UNCHANGED <<credFile, now, df, sw, hist, pl, env, customFile, st, ls, api, cmd>>

LoReturn ==
    /\ lo.pc = "done"
    /\ lo' = LoIdle
    /\ hist' = HistIdle
    /\ UNCHANGED <<credFile, now, df, sw, pl, env, customFile, st, ls, api, cmd>>

ListAvailableOrganisations ==
    \/ LoStart
    \/ \E l \in Listings : LoFetch(l)
    \/ LoInterrupt
    \/ LoReturn

----------------------------------------------------------------------------
(* pat_login *)

\* personal access tokens a user may pass with --pat
Pats == {"ghp_1"}

\* bug: the ValueError of _get_user_info is not caught and re-raised
PatUserInfoOutcome_NoRewrap(status) ==
    CASE status = 200 -> NoOutcome
      [] status = 401 -> Raised("FAILED", "ValueError", <<"Invalid GitHub token">>)
      [] OTHER -> HttpError

\* try: user_info = await _get_user_info(pat)
\* except ValueError: raise ValueError("Invalid GitHub Personal Access Token")
\* NoOutcome when pat_login goes on; another HTTP error passes through
PatUserInfoOutcome(status) ==
    CASE status = 200 -> NoOutcome
      [] status = 401 ->
           Raised("FAILED", "ValueError", <<"Invalid GitHub Personal Access Token">>)
      [] OTHER -> HttpError

\* bug: organisation and username change places
PatCreds_Swapped(pat, organisation, username) ==
    Credentials(pat, username, organisation)

\* the Credentials pat_login builds
PatCreds(pat, organisation, username) ==
    Credentials(pat, organisation, username)

PlStart(pat, organisation) ==
    /\ Idle
    /\ hist' = Begin
    /\ now' = 0
    /\ pl' = [PlIdle EXCEPT !.pc = "user_info", !.pat = pat,
                            !.organisation = organisation]
    /\ UNCHANGED <<credFile, df, sw, lo, env, customFile, st, ls, api, cmd>>

\* _get_user_info(pat)
PlUserInfo(resp) ==
    LET asked == [pl EXCEPT !.user_status = resp.status,
                            !.calls = Append(@, "user")]
        outcome == PatUserInfoOutcome(resp.status)
    IN  /\ pl.pc = "user_info"
        /\ pl' = IF outcome = NoOutcome
                 THEN [asked EXCEPT !.pc = "verify", !.username = resp.login]
                 ELSE Finish(asked, outcome)
        /\ hist' = [hist EXCEPT !.net = @ \cup {"user"}]
        /\ UNCHANGED <<credFile, now, df, sw, lo, env, customFile, st, ls, api, cmd>>

\* _verify_org_membership(pat, organisation); on a member, store_credentials
\* and return
PlVerify(listing) ==
    LET r == get_user_organisations(listing)
        member == r.exc = Absent /\ IsMember(pl.organisation, r.value)
        creds == PatCreds(pl.pat, pl.organisation, pl.username)
        asked == [pl EXCEPT !.calls = Append(@, "orgs")]
    IN  /\ pl.pc = "verify"
        /\ credFile' = FileAfterCheck(credFile, member, creds)
        /\ pl' = IF r.exc # Absent THEN Finish(asked, HttpError)
                 ELSE IF member THEN Finish(asked, Returned("LOGGED_IN", creds))
                 ELSE [asked EXCEPT !.pc = "orgs_msg"]
        /\ hist' = [hist EXCEPT !.net = @ \cup {"orgs"},
                                !.memberOrgs = r.value,
                                !.stores = IF credFile' # credFile \/ member
                                           THEN @ + 1 ELSE @]
        /\ UNCHANGED <<now, df, sw, lo, env, customFile, st, ls, api, cmd>>

\* the second _get_user_organisations, for the message of the ValueError
PlOrgsMsg(listing) ==
    LET r == get_user_organisations(listing)
        asked == [pl EXCEPT !.calls = Append(@, "orgs")]
    IN  /\ pl.pc = "orgs_msg"
        /\ pl' = IF r.exc # Absent THEN Finish(asked, HttpError)
                 ELSE Finish(asked, Raised("FAILED", "ValueError",
                                           NotMemberMsg(pl.organisation, r.value)))
        /\ hist' = IF r.exc # Absent THEN hist
                   ELSE [hist EXCEPT !.msgOrgs = Some(r.value)]
        /\ UNCHANGED <<credFile, now, df, sw, lo, env, customFile, st, ls, api, cmd>>

PlInterrupt ==
    /\ pl.pc \in {"user_info", "verify", "orgs_msg"}
    /\ pl' = Finish(pl, Interrupted)
    /\ UNCHANGED <<credFile, now, df, sw, lo, hist, env, customFile, st, ls, api, cmd>>

PlReturn ==
    /\ pl.pc = "done"
    /\ pl' = PlIdle
    /\ hist' = HistIdle
    /\ UNCHANGED <<credFile, now, df, sw, lo, env, customFile, st, ls, api, cmd>>

PatLogin ==
    \/ \E p \in Pats, o \in OrgArgs : PlStart(p, o)
    \/ \E r \in UserInfoResponses : PlUserInfo(r)
    \/ \E l \in Listings : PlVerify(l)
    \/ \E l \in Listings : PlOrgsMsg(l)
    \/ PlInterrupt
    \/ PlReturn

----------------------------------------------------------------------------
Next ==
    \/ Logout
    \/ DeviceFlow
    \/ SwitchOrganisation
    \/ ListAvailableOrganisations
    \/ PatLogin

Spec == Init /\ [][Next]_vars

----------------------------------------------------------------------------
(* The credential store on its own: get_stored_credentials, get_client,
   store_credentials and clear_credentials over every file, mode and
   environment *)

\* modes the file may have been given before (the owner can write it)
Modes == {<<6, 4, 4>>, <<6, 6, 6>>, <<6, 0, 0>>}

\* objects with every field present, some of them the empty string
EmptyFieldFiles ==
    {JsonText(JsonObject([k \in Keys |-> IF k \in E THEN "" ELSE OldCreds[k]])) :
        E \in {{"github_token"}, {"organisation"}, {"username"}, Keys}}

StoreFiles ==
    {Missing}
    \cup {chmod(f, m) : f \in (InitialFiles \ {Missing}) \cup EmptyFieldFiles,
                        m \in Modes}

\* Settings(): each DEPLOYMENT_QUEUE_CLI_* variable is set or not
EnvSettings ==
    [github_token : {Absent, "ghp_env"}, organisation : {Absent, "env-org"},
     username : {Absent, "env-name"}, credentials_file : {Absent, "custom.json"}]

CustomCreds == Credentials("ghp_custom", "custom-org", "custom-user")

\* what may be found at the path DEPLOYMENT_QUEUE_CLI_CREDENTIALS_FILE names
CustomFiles == {Missing, GarbageText, JsonText(JsonObject(CustomCreds))}

\* Credentials handed to store_credentials: three non-empty strings
SavedCreds ==
    {Credentials(t, o, "alice") : t \in {"ghp_1", "gho_1"}, o \in {"Acme", "zeta"}}

StoreInit ==
    /\ credFile \in StoreFiles
    /\ env \in EnvSettings
    /\ customFile \in IF env.credentials_file = Absent THEN {Missing}
                      ELSE CustomFiles
    /\ st = StIdle
    /\ now = 0
    /\ df = DfIdle
    /\ sw = SwIdle
    /\ lo = LoIdle
    /\ pl = PlIdle
    /\ hist = HistIdle
    /\ ls = LsIdle
    /\ api = ApiIdle
    /\ cmd = CmdIdle

\* creds = get_stored_credentials(); if not creds: ... raise typer.Exit(1)
GetClientAuthenticated(r) == r.exc = Absent /\ r.value # None

\* get_stored_credentials(), as whoami and every caller apply it
StLoad ==
    /\ st' = [st EXCEPT !.op = "load", !.creds = None,
                        !.fileBefore = credFile,
                        !.result = get_stored_credentials(credFile),
                        !.reads = FilesRead(credFile),
                        !.authenticated = FALSE,
                        !.exc = get_stored_credentials(credFile).exc,
                        !.clears = 0]
    /\ UNCHANGED <<credFile, now, df, sw, lo, hist, pl, env, customFile, ls, api, cmd>>

\* get_client(), the entry of every command that calls the API
StGetClient ==
    LET r == get_stored_credentials(credFile)
    IN  /\ st' = [st EXCEPT !.op = "get_client", !.creds = None,
                            !.fileBefore = credFile,
                            !.result = r,
                            !.reads = FilesRead(credFile),
                            !.authenticated = GetClientAuthenticated(r),
                            !.exc = r.exc,
                            !.clears = 0]
        /\ UNCHANGED <<credFile, now, df, sw, lo, hist, pl, env, customFile, ls, api, cmd>>

\* store_credentials(creds)
StStore(creds) ==
    /\ credFile' = store_credentials(credFile, creds)
    /\ st' = [st EXCEPT !.op = "store", !.creds = Some(creds),
                        !.saved = Some(creds),
                        !.fileBefore = credFile,
                        !.result = Return(None), !.reads = {},
                        !.authenticated = FALSE,
                        !.exc = Absent, !.clears = 0]
    /\ UNCHANGED <<now, df, sw, lo, hist, pl, env, customFile, ls, api, cmd>>

\* clear_credentials()
StClear ==
    /\ credFile' = clear_credentials(credFile)
    /\ st' = [st EXCEPT !.op = "clear", !.creds = None, !.saved = None,
                        !.fileBefore = credFile,
                        !.result = Return(None), !.reads = {},
                        !.authenticated = FALSE,
                        !.exc = ClearExc(credFile),
                        !.clears = IF st.op = "clear" THEN 2 ELSE 1]
    /\ UNCHANGED <<now, df, sw, lo, hist, pl, env, customFile, ls, api, cmd>>

StoreNext ==
    \/ StLoad
    \/ StGetClient
    \/ \E c \in SavedCreds : StStore(c)
    \/ StClear

StoreSpec == StoreInit /\ [][StoreNext]_vars

----------------------------------------------------------------------------
(* store_credentials statement by statement (SaveSpec): the file as the
   other users of the machine find it between two statements *)

SaveInit ==
    /\ credFile \in StoreFiles
    /\ st = StIdle
    /\ env = NoSettings
    /\ customFile = Missing
    /\ now = 0
    /\ df = DfIdle
    /\ sw = SwIdle
    /\ lo = LoIdle
    /\ pl = PlIdle
    /\ hist = HistIdle
    /\ ls = LsIdle
    /\ api = ApiIdle
    /\ cmd = CmdIdle

\* CONFIG_DIR.mkdir(parents=True, exist_ok=True)
SvMkdir(creds) ==
    /\ st.op = "none"
    /\ st' = [StIdle EXCEPT !.op = "mkdir", !.creds = Some(creds),
                            !.fileBefore = credFile]
    /\ UNCHANGED <<credFile, now, df, sw, lo, hist, pl, env, customFile, ls, api, cmd>>

\* CREDENTIALS_FILE.write_text(json.dumps(data))
SvWriteText ==
    /\ st.op = "mkdir"
    /\ credFile' = write_text(credFile, json_dumps(st.creds[1]))
    /\ st' = [st EXCEPT !.op = "write_text"]
    /\ UNCHANGED <<now, df, sw, lo, hist, pl, env, customFile, ls, api, cmd>>

\* CREDENTIALS_FILE.chmod(0o600)
SvChmod ==
    /\ st.op = "write_text"
    /\ credFile' = chmod(credFile, Mode600)
    /\ st' = [st EXCEPT !.op = "chmod", !.saved = st.creds]
    /\ UNCHANGED <<now, df, sw, lo, hist, pl, env, customFile, ls, api, cmd>>

\* store_credentials returns
SvReturn ==
    /\ st.op = "chmod"
    /\ st' = StIdle
    /\ UNCHANGED <<credFile, now, df, sw, lo, hist, pl, env, customFile, ls, api, cmd>>

SaveNext ==
    \/ \E c \in SavedCreds : SvMkdir(c)
    \/ SvWriteText
    \/ SvChmod
    \/ SvReturn

SaveSpec == SaveInit /\ [][SaveNext]_vars

----------------------------------------------------------------------------
(* A login and switch_organisation run as two processes on one credentials
   file (ConcSpec). Nothing in the code locks the file: the steps of the two
   interleave freely between their awaits. *)

ConcFiles == {Missing, chmod(JsonText(JsonObject(OldCreds)), Mode600)}

DeviceTokens == {"gho_1"}

ConcInit ==
    /\ credFile \in ConcFiles
    /\ now = 0
    /\ df = DfIdle
    /\ sw = SwIdle
    /\ lo = LoIdle
    /\ pl = PlIdle
    /\ hist = HistIdle
    /\ env = NoSettings
    /\ customFile = Missing
    /\ st = StIdle
    /\ ls = LsIdle
    /\ api = ApiIdle
    /\ cmd = CmdIdle

\* one process enters pat_login
CcPlStart(pat, organisation) ==
    /\ pl.pc = "idle"
    /\ df.pc = "idle"
    /\ pl' = [PlIdle EXCEPT !.pc = "user_info", !.pat = pat,
                            !.organisation = organisation]
    /\ UNCHANGED <<credFile, now, df, sw, lo, hist, env, customFile, st, ls, api, cmd>>

\* or its device_flow_login has just been given an access token
CcDflGranted(token, organisation) ==
    /\ pl.pc = "idle"
    /\ df.pc = "idle"
    /\ df' = [DfIdle EXCEPT !.pc = "user_info", !.organisation = organisation,
                            !.interval = DefaultInterval,
                            !.github_token = token]
    /\ UNCHANGED <<credFile, now, sw, lo, hist, pl, env, customFile, st, ls, api, cmd>>

\* the other process enters switch_organisation and loads the credentials
CcSwStart(organisation) ==
    LET r == get_stored_credentials(credFile)
    IN  /\ sw.pc = "idle"
        /\ sw' = IF SessionOutcome(r) # NoOutcome
                 THEN Finish([SwIdle EXCEPT !.organisation = organisation],
                             SessionOutcome(r))
                 ELSE [SwIdle EXCEPT !.pc = "verify",
                                     !.organisation = organisation,
                                     !.creds = r.value]
        /\ UNCHANGED <<credFile, now, df, lo, hist, pl, env, customFile, st, ls, api, cmd>>

ConcNext ==
    \/ \E p \in Pats, o \in OrgArgs : CcPlStart(p, o)
    \/ \E t \in DeviceTokens, o \in OrgArgs : CcDflGranted(t, o)
    \/ \E o \in OrgArgs : CcSwStart(o)
    \/ \E r \in UserInfoResponses : PlUserInfo(r)
    \/ \E l \in Listings : PlVerify(l)
    \/ \E l \in Listings : PlOrgsMsg(l)
    \/ \E r \in UserInfoResponses : DflUserInfo(r)
    \/ \E l \in Listings : DflVerify(l)
    \/ \E l \in Listings : DflOrgsMsg(l)
    \/ \E l \in Listings : SwVerify(l)
    \/ \E l \in Listings : SwOrgsMsg(l)

ConcSpec == ConcInit /\ [][ConcNext]_vars

----------------------------------------------------------------------------
(* Properties *)

\* the deadline of the running device flow
Deadline == df.start_time + df.expires_in

Transient == {"authorization_pending", "slow_down"}

\* a file from which the load has no three fields to take
Malformed(file) ==
    \/ ~file.exists
    \/ ~file.json
    \/ file.val.type # "object"
    \/ ~(Keys \subseteq DOMAIN file.val.members)

\* an invocation that loads the stored credentials is under way or done
LoadingRun == sw.pc # "idle" \/ lo.pc # "idle"

\* C1: get_stored_credentials never raises: on a missing file, a text that
\* is not JSON, JSON that is not an object, or an object lacking one of the
\* three fields it returns None.
C1_LoadNeverRaises ==
    LoadingRun =>
        /\ hist.loadBefore.exc = Absent
        /\ Malformed(hist.fileBefore) => hist.loadBefore.value = None

\* C2: in every run of device_flow_login store_credentials runs only on the
\* path that ends in GRANTED (token received, identity fetched, membership
\* verified); with any other outcome, and while the run is under way, the
\* credentials file is what it was when the login started.
C2_OnlyGrantedPersists ==
    df.pc # "idle" =>
        /\ df.outcome.kind # "GRANTED" =>
              credFile = hist.fileBefore /\ hist.stores = 0
        /\ hist.stores > 0 =>
              /\ df.outcome.kind = "GRANTED"
              /\ {"token", "user", "orgs"} \subseteq hist.net
              /\ HasToken(hist.lastResp)
              /\ IsMember(df.organisation, hist.memberOrgs)

\* a login that got a token and then failed, over an existing complete file
C2_Witness ==
    /\ df.pc = "done"
    /\ df.outcome.kind = "FAILED"
    /\ df.outcome.exc = "ValueError"
    /\ HasToken(hist.lastResp)
    /\ "orgs" \in hist.net
    /\ ~Malformed(hist.fileBefore)
    /\ credFile = hist.fileBefore

\* the membership check was made and found the organisation
MemberVerified(rec) ==
    /\ rec.pc = "done"
    /\ rec.outcome.kind # "INTERRUPTED"
    /\ "orgs" \in hist.net
    /\ IsMember(rec.organisation, hist.memberOrgs)

\* C3: pending and slow_down answers followed by an access_token answer,
\* for a member of the organisation, end in GRANTED; the returned and the
\* persisted Credentials carry the token of that last answer, and the poll
\* interval is the initial one plus 5 s per slow_down answer.
C3_HappyPath ==
    /\ df.pc # "idle" =>
          df.interval = hist.interval0 + 5 * hist.slowDowns
    /\ MemberVerified(df) => df.outcome.kind = "GRANTED"
    /\ df.outcome.kind = "GRANTED" =>
          /\ HasToken(hist.lastResp)
          /\ df.outcome.ret =
                Some([github_token |-> hist.lastResp.access_token,
                      organisation |-> df.organisation,
                      username |-> df.username])
          /\ get_stored_credentials(credFile) = Return(df.outcome.ret)

\* [authorization_pending, slow_down, access_token]: one raise of the interval
C3_Witness ==
    /\ df.outcome.kind = "GRANTED"
    /\ hist.answers = 3
    /\ hist.slowDowns = 1
    /\ df.interval = hist.interval0 + 5

\* C4: within one run the poll interval never decreases: an
\* authorization_pending answer leaves it as it is, a slow_down answer adds
\* exactly 5 s, and every sleep lasts the interval as raised so far.
C4_IntervalMonotone ==
    [][(df.pc \notin {"idle", "device_code"} /\ df'.pc # "idle") =>
          /\ df'.interval >= df.interval
          /\ (df.pc = "poll" /\ df'.pc = "loop"
                /\ hist'.lastResp.error = "authorization_pending") =>
                df'.interval = df.interval
          /\ (df.pc = "poll" /\ df'.pc = "loop"
                /\ hist'.lastResp.error = "slow_down") =>
                df'.interval = df.interval + 5
          /\ (df.pc = "sleep" /\ df'.pc = "poll") =>
                /\ now' - now = df.interval
                /\ now' - now = hist.interval0 + 5 * hist.slowDowns]_vars

\* a sleep of the raised interval, after a pending and a slow_down answer
C4_Witness ==
    /\ df.pc = "poll"
    /\ hist.answers = 2
    /\ hist.slowDowns = 1
    /\ hist.reqInterval = hist.interval0 + 5
    /\ now = hist.respAt + hist.reqInterval

\* C5: when every poll answers authorization_pending or slow_down the login
\* ends in EXPIRED (TimeoutError); every token-exchange request is issued
\* before the deadline plus the poll interval slept before it; and the polls
\* are bounded: the n-th one follows a loop test made before the deadline
\* and at least (n - 1) initial intervals after the start.
C5_Deadline ==
    /\ (df.pc = "done" /\ hist.interval0 > 0 /\ hist.onlyTransient
          /\ df.outcome.kind # "INTERRUPTED") =>
          /\ df.outcome.kind = "EXPIRED"
          /\ df.outcome.exc = "TimeoutError"
          /\ now >= Deadline
    /\ hist.polls > 0 =>
          /\ hist.reqAt < Deadline + hist.reqInterval
          /\ (hist.polls - 1) * hist.interval0 < df.expires_in
    /\ (df.pc # "idle" /\ df.expires_in = 0) => hist.polls = 0

\* the login timed out after a poll issued past the deadline
C5_Witness ==
    /\ df.pc = "done"
    /\ df.outcome.kind = "EXPIRED"
    /\ hist.onlyTransient
    /\ hist.answers >= 2
    /\ hist.slowDowns >= 1
    /\ hist.reqAt > Deadline

\* C6 as claimed: no run reaches GRANTED (or persists credentials) from a
\* token-exchange response obtained after the deadline.
C6_NoGrantAfterDeadline ==
    (df.outcome.kind = "GRANTED" \/ hist.stores > 0) => hist.respAt <= Deadline

\* C6 as the code has it: the deadline is tested before each sleep only.  A
\* loop test at or after the deadline ends the login in EXPIRED with no
\* further request; the response to a request whose loop test came before
\* the deadline is classified as usual, so a GRANTED run may rest on a
\* response obtained after the deadline, from a request issued less than
\* one poll interval after it.
C6_DeadlineAtLoopTest ==
    [][/\ (df.pc = "loop" /\ now >= Deadline) =>
             /\ df'.pc = "done"
             /\ df'.outcome.kind = "EXPIRED"
             /\ hist'.polls = hist.polls
       /\ (df.pc = "sleep" /\ df'.pc = "poll") => now < Deadline
       /\ df'.outcome.kind = "GRANTED" =>
             hist'.reqAt - hist'.reqInterval < df'.start_time + df'.expires_in]_vars

\* GRANTED from a response that arrived after the deadline
C6_Witness ==
    /\ df.outcome.kind = "GRANTED"
    /\ hist.respAt > Deadline

\* C7: an error answer expired_token ends the login in EXPIRED
\* (TimeoutError), access_denied in DENIED (PermissionError), any other
\* error value, a missing one too, in FAILED with the raw code in the
\* message; none of them is followed by another poll.
C7_ErrorClassification ==
    (hist.answers > 0 /\ ~HasToken(hist.lastResp)
       /\ hist.lastResp.error \notin Transient) =>
        /\ df.pc = "done"
        /\ hist.polls = hist.answers
        /\ hist.stores = 0
        /\ CASE hist.lastResp.error = "expired_token" ->
                  df.outcome.kind = "EXPIRED" /\ df.outcome.exc = "TimeoutError"
             [] hist.lastResp.error = "access_denied" ->
                  df.outcome.kind = "DENIED" /\ df.outcome.exc = "PermissionError"
             [] OTHER ->
                  /\ df.outcome.kind = "FAILED"
                  /\ df.outcome.exc = "Exception"
                  /\ df.outcome.msg = <<"Unexpected error:", hist.lastResp.error>>

\* an answer with neither access_token nor error
C7_Witness ==
    /\ df.pc = "done"
    /\ hist.answers > 1
    /\ hist.lastResp = [access_token |-> Absent, error |-> Absent]
    /\ df.outcome.msg = <<"Unexpected error:", Absent>>

\* the switch failed with the not-a-member error
SwitchNotMember ==
    /\ sw.pc = "done"
    /\ sw.outcome.exc = "ValueError"
    /\ sw.outcome # NotLoggedIn

\* C8: a switch that fails because the stored token is no member of the
\* organisation leaves the credentials file as it was: the load after it
\* returns what the load before it returned.
C8_FailedSwitchKeepsFile ==
    SwitchNotMember =>
        /\ credFile = hist.fileBefore
        /\ get_stored_credentials(credFile) = hist.loadBefore
        /\ hist.loadBefore.value # None
        /\ hist.stores = 0

C8_Witness ==
    /\ SwitchNotMember
    /\ sw.organisation = "zeta"
    /\ sw.outcome.msg = NotMemberMsg("zeta", {"acme", "Other"})
    /\ get_stored_credentials(credFile) = Return(Some(OldCreds))

\* C9: with (t, o, u) stored and t a member of O, switch_organisation(O)
\* returns Credentials(t, O, u) and the next load returns that value; token
\* and username are those stored, and no request but the organisation
\* listing is made.
C9_SwitchSuccess ==
    /\ MemberVerified(sw) => sw.outcome.kind = "SWITCHED"
    /\ sw.outcome.kind = "SWITCHED" =>
          /\ hist.loadBefore.exc = Absent
          /\ hist.loadBefore.value # None
          /\ sw.outcome.ret =
                Some([github_token |-> hist.loadBefore.value[1].github_token,
                      organisation |-> sw.organisation,
                      username |-> hist.loadBefore.value[1].username])
          /\ get_stored_credentials(credFile) = Return(sw.outcome.ret)
          /\ hist.net = {"orgs"}

\* a switch from "acme" to "Acme"
C9_Witness ==
    /\ sw.outcome.kind = "SWITCHED"
    /\ hist.loadBefore.value[1].organisation # sw.organisation
    /\ get_stored_credentials(credFile) =
          Return(Some(Credentials("ghp_old", "Acme", "alice")))

\* C10: when the load returns None, switch_organisation and
\* list_available_organisations fail with the not-logged-in error, before
\* any network request and without touching the credentials file.
C10_SessionRequired ==
    (LoadingRun /\ hist.loadBefore = Return(None)) =>
        /\ hist.net = {}
        /\ credFile = hist.fileBefore
        /\ sw.pc # "idle" =>
              /\ sw.pc = "done"
              /\ sw.outcome.exc = "ValueError"
              /\ sw.outcome.msg =
                    <<"Not logged in. Run 'deployment-queue-cli login' first.">>
        /\ lo.pc # "idle" =>
              /\ lo.pc = "done"
              /\ lo.outcome.exc = "ValueError"
              /\ lo.outcome.msg =
                    <<"Not logged in. Run 'deployment-queue-cli login' first.">>

\* the switch refused over a file that lacks a field
C10_Witness ==
    /\ sw.pc = "done"
    /\ sw.outcome = NotLoggedIn
    /\ hist.fileBefore.exists
    /\ hist.fileBefore.json
    /\ hist.fileBefore.val.type = "object"

----------------------------------------------------------------------------
(* _get_user_organisations on its own, over every provider behaviour *)

\* listings of up to PageLimit + 1 non-empty pages, with an error at any page
LongListings ==
    [page1 : SUBSET OrgLogins, page2 : {{}, {"Other"}, {"acme"}},
     rest : {{}, {"zeta"}}, lastPage : 2..(PageLimit + 1),
     failAt : 0..(PageLimit + 1)]

ListingInit ==
    /\ ls = LsIdle
    /\ api = ApiIdle
    /\ cmd = CmdIdle
    /\ credFile = Missing
    /\ env = NoSettings
    /\ customFile = Missing
    /\ st = StIdle
    /\ now = 0
    /\ df = DfIdle
    /\ sw = SwIdle
    /\ lo = LoIdle
    /\ pl = PlIdle
    /\ hist = HistIdle

\* _get_user_organisations(token) against a provider that answers listing
LsFetch(listing) ==
    /\ ls.op = "none"
    /\ ls' = [LsIdle EXCEPT !.op = "orgs", !.listing = listing,
                            !.result = get_user_organisations(listing)]
    /\ UNCHANGED <<credFile, now, df, sw, lo, hist, pl, env, customFile, st, api, cmd>>

\* the listings of at most three non-empty pages
ShortListings == {l \in LongListings : l.lastPage <= 3}

\* organisations a membership question may name
VerifyArgs == {"Acme", "acme", "Other", "other", "zeta"}

\* _verify_org_membership(token, organisation) against a provider that
\* answers listing; member stays FALSE when the listing raises
LsVerify(listing, organisation) ==
    LET r == get_user_organisations(listing)
    IN  /\ ls.op = "none"
        /\ ls' = [LsIdle EXCEPT !.op = "verify", !.listing = listing,
                                !.organisation = organisation,
                                !.result = r,
                                !.member = r.exc = Absent
                                           /\ IsMember(organisation, r.value)]
        /\ UNCHANGED <<credFile, now, df, sw, lo, hist, pl, env, customFile, st, api, cmd>>

\* the call is over
LsReturn ==
    /\ ls.op # "none"
    /\ ls' = LsIdle
    /\ UNCHANGED <<credFile, now, df, sw, lo, hist, pl, env, customFile, st, api, cmd>>

ListingNext ==
    \/ \E l \in LongListings : LsFetch(l)
    \/ \E l \in ShortListings, o \in VerifyArgs : LsVerify(l, o)
    \/ LsReturn

ListingSpec == ListingInit /\ [][ListingNext]_vars

----------------------------------------------------------------------------
(* The deployment commands of the CLI and the tools of the MCP server *)

ApiFiles == {Missing, JsonText(JsonObject(OldCreds)), JsonText(JsonOther("array"))}

NotAuthenticatedMsg == "Not authenticated. Run 'deployment-queue-cli login' first."

valid_statuses == {"scheduled", "in_progress", "deployed", "failed", "skipped"}

\* status arguments: the valid ones, two that are not, and none
StatusArgs == valid_statuses \cup {"DEPLOYED", "done", Absent}

CliCommands == {"create", "list", "rollback", "release", "update-status"}

TOOL_HANDLERS ==
    {"list_deployments", "create_deployment", "get_deployment",
     "release_deployment", "update_deployment_status", "rollback_deployment"}

\* tool names a client may send
ToolNames == TOOL_HANDLERS \cup {"delete_deployment"}

CmdArgs ==
    [deployment_id : {Absent, "d1"}, status : StatusArgs, yes : BOOLEAN,
     all : BOOLEAN, provider : {Absent, "gcp"}, trigger : {Absent, "auto"},
     limit : {DefaultLimit, "50"}]

\* the arguments a command or tool reads; the others stay as in NoArgs
ArgsOf(name) ==
    CASE name \in {"create"} -> {"yes"}
      [] name \in {"list"} -> {"all", "status", "provider", "trigger", "limit"}
      [] name \in {"rollback", "release"} -> {"deployment_id", "yes"}
      [] name \in {"update-status", "update_deployment_status"} ->
            {"deployment_id", "status"}
      [] name \in {"list_deployments"} -> {"status", "provider", "trigger", "limit"}
      [] name \in {"get_deployment", "release_deployment"} -> {"deployment_id"}
      [] OTHER -> {}

\* typer requires the arguments of a command; a tool call may lack them
ArgsFor(surface, name) ==
    {a \in CmdArgs :
        /\ \A k \in DOMAIN NoArgs \ ArgsOf(name) : a[k] = NoArgs[k]
        /\ surface = "cli" =>
              /\ "deployment_id" \in ArgsOf(name) => a.deployment_id # Absent
              /\ name = "update-status" => a.status # Absent}

CreateRequest ==
    Request("create_deployment", Absent, [name |-> "svc", version |-> "1.0.0"])
GetRequest(id) == Request("get_deployment", id, NoPayload)
UpdateRequest(id, status) == Request("update_deployment", id, [status |-> status])

\* effective_status of the list command
EffectiveStatus(all, status) ==
    IF ~all /\ status = Absent THEN "scheduled" ELSE status

\* client.list_deployments(effective_status, provider, trigger, limit): the
\* four values bind to the first four parameters of the method, which are
\* environment, status, provider and trigger; limit keeps its default
CliListRequest(args) ==
    Request("list_deployments", Absent,
            ListParams(EffectiveStatus(args.all, args.status), args.provider,
                       args.trigger, args.limit, DefaultLimit))

\* client.list_deployments(status=..., provider=..., trigger=..., limit=...)
McpListRequest(args) ==
    Request("list_deployments", Absent,
            ListParams(Absent, args.status, args.provider, args.trigger,
                       args.limit))

Issue(c, step, req) ==
    [c EXCEPT !.pc = "await", !.step = step, !.calls = Append(@, req)]

Ask(c) == [c EXCEPT !.pc = "confirm", !.asked = TRUE]

\* d['id'], d['name'], d['version'], d['status'] all succeed
Displayable(v) == v.type = "object" /\ v.status # Absent
\* the exception of d['id'] otherwise
SubscriptExc(v) == IF v.type = "object" THEN "KeyError" ELSE "TypeError"

(* the CLI *)

\* raise typer.Exit(code) after printing text
CliExit(c, code, text) ==
    [c EXCEPT !.pc = "done", !.exit = Some(code), !.out = text]

\* an exception nothing catches: traceback, exit code 1
CliCrash(c, exc) ==
    [c EXCEPT !.pc = "done", !.exit = Some(1), !.raised = exc, !.exc = exc]

\* handle_api_error(e)
handle_api_error(c, e) ==
    CliExit([c EXCEPT !.raised = e.exc], 1,
            CASE e.status_code = 401 -> Text("Authentication failed", 401, "")
              [] e.status_code = 403 -> Text("Access denied", 403, e.detail)
              [] e.status_code = 404 -> Text("Not found", 404, e.detail)
              [] OTHER -> Text("API error", e.status_code, e.detail))

\* bug: a missing session does not stop the command
CliGetClient_NoGate(c, file) ==
    [c EXCEPT !.resolved = TRUE, !.load = get_stored_credentials(file)]

\* get_client() of main.py
CliGetClient(c, file) ==
    LET r == get_stored_credentials(file)
        c1 == [c EXCEPT !.resolved = TRUE, !.load = r]
    IN  IF r.exc # Absent THEN CliCrash(c1, r.exc)
        ELSE IF r.value = None
        THEN CliExit(c1, 1, Text("Not authenticated", 0, NotAuthenticatedMsg))
        ELSE c1

\* the request a command is for, once nothing stands in its way
CliFinal(c) ==
    CASE c.name = "create" -> Issue(c, "final", CreateRequest)
      [] c.name = "release" ->
           Issue(c, "final", UpdateRequest(c.args.deployment_id, "in_progress"))
      [] c.name = "rollback" -> CliCrash(c, "AttributeError")
      [] c.name = "list" -> Issue(c, "final", CliListRequest(c.args))
      [] OTHER ->
           Issue(c, "final", UpdateRequest(c.args.deployment_id, c.args.status))

\* bug: the prompt is skipped
CliProceed_NoPrompt(c) == CliFinal(c)

\* if not yes: confirm = typer.confirm(...)
CliProceed(c) == IF c.args.yes THEN CliFinal(c) ELSE Ask(c)

\* a command from get_client() to its first prompt or request
CliBody(c) ==
    CASE c.name = "create" -> CliProceed(c)
      [] c.name \in {"rollback", "release"} ->
           Issue(c, "get", GetRequest(c.args.deployment_id))
      [] OTHER -> CliFinal(c)

\* bug: the status is checked after get_client
CliEntry_GateFirst(c, file) ==
    LET c1 == CliGetClient(c, file)
    IN  IF c1.pc = "done" THEN c1
        ELSE IF c.name = "update-status" /\ c.args.status \notin valid_statuses
        THEN CliExit(c1, 1, Text("Invalid status", 0, c.args.status))
        ELSE CliBody(c1)

\* a command from its entry to its first prompt or request
CliEntry(c, file) ==
    IF c.name = "update-status" /\ c.args.status \notin valid_statuses
    THEN CliExit(c, 1, Text("Invalid status", 0, c.args.status))
    ELSE LET c1 == CliGetClient(c, file)
         IN  IF c1.pc = "done" THEN c1 ELSE CliBody(c1)

\* the command after the response to the request it awaits
CliAfter(c, response) ==
    LET r == handle_response(response)
        v == r.value
    IN  IF r.exc = "DeploymentAPIError" THEN handle_api_error(c, r)
        ELSE IF r.exc # Absent THEN CliCrash(c, r.exc)
        ELSE IF c.step = "get"
        THEN IF v.empty
             THEN CliExit(c, 1, Text("Deployment not found", 0, c.args.deployment_id))
             ELSE IF ~Displayable(v) THEN CliCrash(c, SubscriptExc(v))
             ELSE CliProceed([c EXCEPT !.d = v,
                                       !.warned = c.name = "release"
                                                  /\ v.status # "scheduled"])
        ELSE IF c.name = "list"
        THEN IF v.empty THEN CliExit(c, 0, Text("No deployments found", 0, ""))
             ELSE IF v.type = "array" THEN CliExit(c, 0, Text("Deployments", 0, ""))
             ELSE CliCrash(c, "AttributeError")
        ELSE IF Displayable(v) THEN CliExit(c, 0, Text("result", 0, c.name))
        ELSE CliCrash(c, SubscriptExc(v))

(* the MCP server *)

ValueErrors == {"ValueError", "JSONDecodeError"}

\* bug: a ValueError is reported like any other exception
CallToolText_NoValueError(exc, status_code, msg) ==
    CASE exc = "DeploymentAPIError" -> Text("API error", status_code, msg)
      [] OTHER -> Text("Error: ", 0, msg)

\* the except clauses of call_tool
CallToolText(exc, status_code, msg) ==
    CASE exc = "DeploymentAPIError" -> Text("API error", status_code, msg)
      [] exc \in ValueErrors -> Text("", 0, msg)
      [] OTHER -> Text("Error: ", 0, msg)

\* call_tool returns [TextContent(text)]
McpDone(c, text) == [c EXCEPT !.pc = "done", !.out = text]

\* the handler raises; call_tool catches
McpRaise(c, exc, status_code, msg) ==
    McpDone([c EXCEPT !.raised = exc], CallToolText(exc, status_code, msg))

\* get_client() of mcp_server.py
McpGetClient(c, file) ==
    LET r == get_stored_credentials(file)
        c1 == [c EXCEPT !.resolved = TRUE, !.load = r]
    IN  IF r.exc # Absent THEN McpRaise(c1, r.exc, 0, r.exc)
        ELSE IF r.value = None
        THEN McpRaise(c1, "ValueError", 0, NotAuthenticatedMsg)
        ELSE c1

\* arguments["deployment_id"], then the request
McpWithId(c, step, op) ==
    IF c.args.deployment_id = Absent
    THEN McpRaise(c, "KeyError", 0, "'deployment_id'")
    ELSE Issue(c, step, IF op = "get" THEN GetRequest(c.args.deployment_id)
                        ELSE UpdateRequest(c.args.deployment_id, c.args.status))

\* a handler from get_client() to its first request
McpBody(c, file) ==
    LET c1 == McpGetClient(c, file)
    IN  IF c1.pc = "done" THEN c1
        ELSE CASE c.name = "list_deployments" ->
                    Issue(c1, "final", McpListRequest(c.args))
               [] c.name = "create_deployment" -> Issue(c1, "final", CreateRequest)
               [] c.name = "get_deployment" -> McpWithId(c1, "final", "get")
               [] c.name = "release_deployment" -> McpWithId(c1, "get", "get")
               [] c.name = "rollback_deployment" ->
                    McpRaise(c1, "AttributeError", 0, "rollback_by_id")
               [] OTHER -> McpWithId(c1, "final", "update")

\* call_tool(name, arguments) up to the first request of the handler
McpEntry(c, file) ==
    IF c.name \notin TOOL_HANDLERS
    THEN McpDone(c, Text("Unknown tool: ", 0, c.name))
    ELSE IF c.name = "update_deployment_status" /\ c.args.status = Absent
    THEN McpRaise(c, "KeyError", 0, "'status'")
    ELSE IF c.name = "update_deployment_status"
            /\ c.args.status \notin valid_statuses
    THEN McpDone(c, Text("Invalid status", 0, c.args.status))
    ELSE McpBody(c, file)

\* the handler after the response to the request it awaits
McpAfter(c, response) ==
    LET r == handle_response(response)
        v == r.value
    IN  IF r.exc # Absent
        THEN McpRaise(c, r.exc, r.status_code,
                      IF r.exc = "DeploymentAPIError" THEN r.detail ELSE r.exc)
        ELSE IF c.step = "get"
        THEN IF v.empty
             THEN McpDone(c, Text("Deployment not found", 0, c.args.deployment_id))
             ELSE Issue([c EXCEPT !.d = v], "final",
                        UpdateRequest(c.args.deployment_id, "in_progress"))
        ELSE IF c.name = "list_deployments"
        THEN IF v.empty THEN McpDone(c, Text("No deployments found", 0, ""))
             ELSE IF v.type = "array" THEN McpDone(c, Text("Deployments", 0, ""))
             ELSE McpRaise(c, "TypeError", 0, "TypeError")
        ELSE IF c.name = "get_deployment" /\ v.empty
        THEN McpDone(c, Text("Deployment not found", 0, c.args.deployment_id))
        ELSE IF Displayable(v) THEN McpDone(c, Text("result", 0, c.name))
        ELSE McpRaise(c, SubscriptExc(v), 0, SubscriptExc(v))

(* the actions *)

ApiInit ==
    /\ credFile \in ApiFiles
    /\ api = ApiIdle
    /\ cmd = CmdIdle
    /\ ls = LsIdle
    /\ env = NoSettings
    /\ customFile = Missing
    /\ st = StIdle
    /\ now = 0
    /\ df = DfIdle
    /\ sw = SwIdle
    /\ lo = LoIdle
    /\ pl = PlIdle
    /\ hist = HistIdle

\* a command line or a tool call arrives; it runs to its first prompt or
\* request, or to its end
CmdStart(surface, name, args) ==
    LET c == [CmdIdle EXCEPT !.surface = surface, !.name = name, !.args = args]
    IN  /\ cmd.pc = "idle"
        /\ api.op = "none"
        /\ cmd' = IF surface = "cli" THEN CliEntry(c, credFile)
                  ELSE McpEntry(c, credFile)
        /\ UNCHANGED <<credFile, now, df, sw, lo, hist, pl, env, customFile, st, ls, api>>

\* the user answers typer.confirm("Do you want to continue?")
CmdConfirm(answer) ==
    /\ cmd.pc = "confirm"
    /\ cmd' = IF answer THEN CliFinal([cmd EXCEPT !.answer = TRUE])
              ELSE CliExit(cmd, 0, Text("Aborted", 0, ""))
    /\ UNCHANGED <<credFile, now, df, sw, lo, hist, pl, env, customFile, st, ls, api>>

\* the API answers the request awaited
CmdRespond(response) ==
    /\ cmd.pc = "await"
    /\ LET c == [cmd EXCEPT !.got = handle_response(response)]
       IN  cmd' = IF cmd.surface = "cli" THEN CliAfter(c, response)
                  ELSE McpAfter(c, response)
    /\ UNCHANGED <<credFile, now, df, sw, lo, hist, pl, env, customFile, st, ls, api>>

\* the request fails without a response (httpx.ConnectError)
CmdNetError ==
    /\ cmd.pc = "await"
    /\ cmd' = IF cmd.surface = "cli" THEN CliCrash(cmd, "ConnectError")
              ELSE McpRaise(cmd, "ConnectError", 0, "ConnectError")
    /\ UNCHANGED <<credFile, now, df, sw, lo, hist, pl, env, customFile, st, ls, api>>

\* the command or tool call is over
CmdReturn ==
    /\ cmd.pc = "done"
    /\ cmd' = CmdIdle
    /\ UNCHANGED <<credFile, now, df, sw, lo, hist, pl, env, customFile, st, ls, api>>

\* client._handle_response(response)
ApiHandle(response) ==
    /\ api.op = "none"
    /\ cmd.pc = "idle"
    /\ api' = [op |-> "handle_response", response |-> response,
               result |-> handle_response(response)]
    /\ UNCHANGED <<credFile, now, df, sw, lo, hist, pl, env, customFile, st, ls, cmd>>

\* client.get_current(...), from the response on
ApiGetCurrent(response) ==
    /\ api.op = "none"
    /\ cmd.pc = "idle"
    /\ api' = [op |-> "get_current", response |-> response,
               result |-> get_current(response)]
    /\ UNCHANGED <<credFile, now, df, sw, lo, hist, pl, env, customFile, st, ls, cmd>>

\* the call is over
ApiDone ==
    /\ api.op # "none"
    /\ api' = ApiIdle
    /\ UNCHANGED <<credFile, now, df, sw, lo, hist, pl, env, customFile, st, ls, cmd>>

ApiNext ==
    \/ \E n \in CliCommands : \E a \in ArgsFor("cli", n) : CmdStart("cli", n, a)
    \/ \E n \in ToolNames : \E a \in ArgsFor("mcp", n) : CmdStart("mcp", n, a)
    \/ \E answer \in BOOLEAN : CmdConfirm(answer)
    \/ \E r \in Responses : CmdRespond(r)
    \/ CmdNetError
    \/ CmdReturn
    \/ \E r \in Responses : ApiHandle(r)
    \/ \E r \in Responses : ApiGetCurrent(r)
    \/ ApiDone

ApiSpec == ApiInit /\ [][ApiNext]_vars

----------------------------------------------------------------------------
(* pat_login *)

\* C11: when the identity fetch accepts the token p with login u and the
\* membership set holds the organisation o (compared in lower case),
\* pat_login(p, o) returns Credentials(p, o, u), and the load after it
\* returns the same value.
C11_PatLoginSuccess ==
    /\ MemberVerified(pl) => pl.outcome.kind = "LOGGED_IN"
    /\ pl.outcome.kind = "LOGGED_IN" =>
          /\ pl.user_status = 200
          /\ pl.outcome.ret =
                Some([github_token |-> pl.pat,
                      organisation |-> pl.organisation,
                      username |-> pl.username])
          /\ get_stored_credentials(credFile) = Return(pl.outcome.ret)

\* "Acme" asked, "acme" listed, no file before
C11_Witness ==
    /\ pl.pc = "done"
    /\ pl.outcome.kind = "LOGGED_IN"
    /\ pl.organisation = "Acme"
    /\ hist.memberOrgs = {"acme", "Other"}
    /\ ~hist.fileBefore.exists
    /\ get_stored_credentials(credFile) =
          Return(Some(Credentials("ghp_1", "Acme", "alice")))

\* C12: when the identity fetch rejects the token (401), pat_login fails
\* with ValueError "Invalid GitHub Personal Access Token"; the one request
\* it has made is the identity fetch (no membership request, no retry), and
\* the credentials file is as it was.
C12_PatRejected ==
    pl.user_status = 401 =>
        /\ pl.pc = "done"
        /\ pl.outcome =
              Raised("FAILED", "ValueError",
                     <<"Invalid GitHub Personal Access Token">>)
        /\ pl.calls = <<"user">>
        /\ hist.net = {"user"}
        /\ hist.stores = 0
        /\ credFile = hist.fileBefore

\* a rejected token over a file that holds a session
C12_Witness ==
    /\ pl.pc = "done"
    /\ pl.user_status = 401
    /\ pl.outcome.exc = "ValueError"
    /\ get_stored_credentials(credFile) = Return(Some(OldCreds))

\* the place of a name in Python's order of strings
Rank(name) == CHOOSE i \in 1..Len(StrOrder) : StrOrder[i] = name

\* the names a not-a-member message lists, behind its three leading parts
ListedOrgs(msg) == SubSeq(msg, 4, Len(msg))

\* rec has found its organisation missing from the membership set and has
\* fetched the organisations for the message
NotAMember(rec) ==
    /\ rec.pc = "done"
    /\ rec.outcome.kind # "INTERRUPTED"
    /\ hist.msgOrgs # None

NotAMemberError(rec) ==
    LET msg == rec.outcome.msg
        listed == ListedOrgs(msg)
    IN  /\ rec.outcome.kind = "FAILED"
        /\ rec.outcome.exc = "ValueError"
        /\ Len(msg) >= 3
        /\ msg[1] = "You are not a member of organisation"
        /\ msg[2] = rec.organisation
        /\ {listed[i] : i \in 1..Len(listed)} = hist.msgOrgs[1]
        /\ \A i, j \in 1..Len(listed) :
              i < j => Rank(listed[i]) < Rank(listed[j])
        /\ ~IsMember(rec.organisation, hist.memberOrgs)
        /\ hist.stores = 0
        /\ credFile = hist.fileBefore

\* C13: in device_flow_login, pat_login and switch_organisation, a valid
\* token whose membership set lacks the requested organisation ends in a
\* ValueError whose message names the requested organisation and lists the
\* user's organisations in sorted order, each once; nothing is stored.
C13_NotAMemberShape ==
    /\ \A rec \in {df, sw, pl} :
          /\ rec.pc = "orgs_msg" =>
                hist.stores = 0 /\ credFile = hist.fileBefore
          /\ NotAMember(rec) => NotAMemberError(rec)

\* pat_login("ghp_1", "zeta") for a member of acme and Other
C13_Witness ==
    /\ NotAMember(pl)
    /\ pl.organisation = "zeta"
    /\ pl.outcome.msg =
          <<"You are not a member of organisation", "zeta",
            "Your organisations:", "Other", "acme">>
    /\ hist.fileBefore.exists

----------------------------------------------------------------------------
(* The credential store and the resolution of credentials (StoreSpec) *)

\* get_stored_credentials has just been applied, by itself or by get_client
Loaded == st.op \in {"load", "get_client"}

\* the environment gives a token and an organisation
Tier1(e) == e.github_token # Absent /\ e.organisation # Absent

\* the username of environment credentials: the given one or the placeholder
EnvUsername(e) == IF e.username = Absent THEN "env-user" ELSE e.username

\* C14: when the environment gives a token and an organisation,
\* get_stored_credentials returns the Credentials built from the environment
\* values, whatever the credentials files hold, and reads no file.
C14_EnvTierFirst ==
    (Loaded /\ Tier1(env)) =>
        /\ st.result =
              Return(Some(Credentials(env.github_token, env.organisation,
                                      EnvUsername(env))))
        /\ st.reads = {}

\* C15: when the environment gives no token and organisation pair but names
\* a credentials file, get_stored_credentials returns what loading that
\* file gives (None when it is missing or malformed) and does not turn to
\* the default file.
C15_OverrideTier ==
    (Loaded /\ ~Tier1(env) /\ env.credentials_file # Absent) =>
        /\ st.result = get_stored_credentials(customFile)
        /\ "CREDENTIALS_FILE" \notin st.reads

\* C16: every Credentials that get_stored_credentials returns, and every
\* one get_client builds a client from, has a non-empty token, organisation
\* and username.
C16_NonEmptyFields ==
    (Loaded /\ st.result.exc = Absent /\ st.result.value # None) =>
        \A k \in Keys : st.result.value[1][k] # ""

\* C17: after store_credentials(c), and until the file is cleared,
\* get_stored_credentials returns c, the most recently stored value, equal
\* in token, organisation and username.
C17_RoundTrip ==
    /\ st.op = "store" => st.saved = st.creds
    /\ st.saved # None =>
          /\ get_stored_credentials(credFile) = Return(st.saved)
          /\ Loaded => st.result = Return(st.saved)

\* a load after a store over a file that held another session
C17_Witness ==
    /\ st.op = "load"
    /\ st.saved = Some(Credentials("gho_1", "zeta", "alice"))
    /\ st.result = Return(Some(Credentials("gho_1", "zeta", "alice")))

\* C18: once store_credentials has returned, the mode of the credentials
\* file is 0600, with no permission for group or other, whatever the mode
\* was before.
C18_OwnerOnly ==
    st.saved # None =>
        /\ credFile.exists
        /\ credFile.mode = Mode600
        /\ credFile.mode[2] = 0
        /\ credFile.mode[3] = 0

\* a store over a file that everyone could read and write
C18_Witness ==
    /\ st.op = "store"
    /\ st.fileBefore.exists
    /\ st.fileBefore.mode = <<6, 6, 6>>
    /\ credFile.mode = <<6, 0, 0>>

\* C19: clear_credentials never raises; after it there is no file and the
\* load returns None; on a missing file, also right after another clear, it
\* changes nothing.
C19_ClearIdempotent ==
    st.op = "clear" =>
        /\ st.exc = Absent
        /\ ~credFile.exists
        /\ get_stored_credentials(credFile) = Return(None)
        /\ ~st.fileBefore.exists => credFile = st.fileBefore

\* the second of two clears in a row
C19_Witness ==
    /\ st.op = "clear"
    /\ st.clears = 2
    /\ ~st.fileBefore.exists
    /\ st.exc = Absent

----------------------------------------------------------------------------
(* The organisation listing (ListingSpec) *)

\* C20: _get_user_organisations ends after 1..10 page requests: every page
\* before the last one requested was non-empty and without error; it
\* returns when a page is empty or when page 10 has been read, with the
\* logins of all the pages requested, and raises when a page is an error.
C20_ListingTerminates ==
    ls.op = "orgs" =>
        LET l == ls.listing
            r == ls.result
        IN  /\ r.requests \in 1..10
            /\ \A p \in 1..(r.requests - 1) :
                  PageAt(l, p) # {} /\ l.failAt # p
            /\ r.exc = Absent =>
                  /\ l.failAt # r.requests
                  /\ PageAt(l, r.requests) = {} \/ r.requests = 10
                  /\ r.value = UNION {PageAt(l, p) : p \in 1..r.requests}
            /\ r.exc # Absent => l.failAt = r.requests

\* a provider whose pages never run out
C20_Witness ==
    /\ ls.op = "orgs"
    /\ ls.listing.lastPage > 10
    /\ ls.listing.failAt = 0
    /\ ls.listing.page1 = {"acme"}
    /\ ls.listing.page2 = {"Other"}
    /\ ls.listing.rest = {"zeta"}
    /\ ls.result.requests = 10
    /\ ls.result.value = {"acme", "Other", "zeta"}

\* two names that differ at most in the case of their letters
SameIgnoringCase(a, b) ==
    \/ a = b
    \/ {a, b} = {"Acme", "acme"}
    \/ {a, b} = {"Other", "other"}

\* C21: _verify_org_membership(token, o) is true exactly when a login of
\* the fetched set equals o up to the case of the letters.
C21_CaseInsensitiveMembership ==
    (ls.op = "verify" /\ ls.result.exc = Absent) =>
        (ls.member <=> \E org \in ls.result.value :
                          SameIgnoringCase(org, ls.organisation))

\* "Acme" asked of a user whose organisations are acme and zeta
C21_Witness ==
    /\ ls.op = "verify"
    /\ ls.organisation = "Acme"
    /\ ls.result.exc = Absent
    /\ ls.result.value = {"acme", "zeta"}
    /\ ls.member

----------------------------------------------------------------------------
(* The deployment commands and the MCP tools (ApiSpec) *)

\* get_stored_credentials() returns None
NoSession == get_stored_credentials(credFile) = Return(None)

\* the command running needs a client: not an update-status that its
\* status check stops
CliGated ==
    /\ cmd.surface = "cli"
    /\ cmd.name = "update-status" => cmd.args.status \in valid_statuses

\* the command or tool call has ended with the not-authenticated directive
\* and without a request
NotAuthenticatedEnd ==
    /\ cmd.pc = "done"
    /\ cmd.calls = <<>>
    /\ cmd.surface = "cli" =>
          /\ cmd.exit = Some(1)
          /\ cmd.out = Text("Not authenticated", 0, NotAuthenticatedMsg)
    /\ cmd.surface = "mcp" =>
          /\ cmd.raised = "ValueError"
          /\ cmd.out.msg = NotAuthenticatedMsg

\* C22 as stated: with no session, create, list, rollback, release and
\* update-status (valid status) of the CLI and every tool handler of the
\* MCP server end with "Not authenticated" and without a request.
C22_EveryHandlerGated ==
    (NoSession /\ (CliGated \/ (cmd.surface = "mcp" /\ cmd.name \in TOOL_HANDLERS)))
        => NotAuthenticatedEnd

\* C22: with no session, create, list, rollback, release and update-status
\* (valid status) of the CLI, and every tool handler of the MCP server
\* (update_deployment_status when its status is valid), end with "Not
\* authenticated" (exit code 1, ValueError) and without a request.
C22_NotAuthenticatedGate ==
    (NoSession
     /\ \/ CliGated
        \/ /\ cmd.surface = "mcp"
           /\ cmd.name \in TOOL_HANDLERS
           /\ cmd.name = "update_deployment_status" =>
                 cmd.args.status \in valid_statuses)
        => NotAuthenticatedEnd

\* create without a credentials file
C22_Witness ==
    /\ cmd.surface = "cli"
    /\ cmd.name = "create"
    /\ ~credFile.exists
    /\ cmd.exit = Some(1)
    /\ cmd.out.kind = "Not authenticated"

UpdatesStatus == cmd.name \in {"update-status", "update_deployment_status"}

\* C23: update-status and update_deployment_status reject a status outside
\* the five valid ones before get_client and without a request (exit code 1,
\* an error text); with a valid status the one request they issue is the
\* update of the given deployment with exactly {status: value}.
C23_StatusCheckedFirst ==
    UpdatesStatus =>
        /\ cmd.args.status \notin valid_statuses \cup {Absent} =>
              /\ cmd.pc = "done"
              /\ ~cmd.resolved
              /\ cmd.calls = <<>>
              /\ cmd.out = Text("Invalid status", 0, cmd.args.status)
              /\ cmd.surface = "cli" => cmd.exit = Some(1)
              /\ cmd.surface = "mcp" => cmd.exc = Absent
        /\ cmd.args.status \in valid_statuses =>
              /\ cmd.resolved
              /\ Len(cmd.calls) <= 1
              /\ (cmd.load.exc = Absent /\ cmd.load.value # None
                  /\ cmd.args.deployment_id # Absent) => Len(cmd.calls) = 1
              /\ cmd.calls # <<>> =>
                    /\ cmd.calls[1].op = "update_deployment"
                    /\ cmd.calls[1].id = cmd.args.deployment_id
                    /\ cmd.calls[1].payload = [status |-> cmd.args.status]

\* "DEPLOYED" sent to the tool by a caller without a session
C23_Witness ==
    /\ cmd.name = "update_deployment_status"
    /\ cmd.args.status = "DEPLOYED"
    /\ ~credFile.exists
    /\ cmd.pc = "done"
    /\ cmd.out.kind = "Invalid status"

Releasing == cmd.surface = "cli" /\ cmd.name = "release"

\* C24: release issues the update to in_progress only as its second request,
\* after get_deployment gave a deployment and the user agreed (or --yes);
\* a deployment not found ends it with exit code 1, a refusal with exit
\* code 0, both without an update; a status other than scheduled warns and
\* does not stop the release.
C24_ReleaseOrdering ==
    Releasing =>
        /\ Len(cmd.calls) <= 2
        /\ cmd.calls # <<>> =>
              cmd.calls[1] = GetRequest(cmd.args.deployment_id)
        /\ Len(cmd.calls) = 2 =>
              /\ cmd.calls[2] =
                    UpdateRequest(cmd.args.deployment_id, "in_progress")
              /\ Displayable(cmd.d)
              /\ cmd.args.yes \/ (cmd.asked /\ cmd.answer)
        /\ (cmd.pc = "done" /\ Len(cmd.calls) = 1
            /\ cmd.got.exc = Absent /\ cmd.got.value.empty) =>
              /\ cmd.exit = Some(1)
              /\ cmd.out.kind = "Deployment not found"
        /\ (cmd.pc = "done" /\ cmd.asked /\ ~cmd.answer) =>
              /\ cmd.exit = Some(0)
              /\ cmd.out.kind = "Aborted"
              /\ Len(cmd.calls) = 1
        /\ Displayable(cmd.d) =>
              /\ cmd.warned <=> cmd.d.status # "scheduled"
              /\ (cmd.args.yes \/ cmd.answer) => Len(cmd.calls) = 2

\* a deployed deployment released after the warning and a yes at the prompt
C24_Witness ==
    /\ Releasing
    /\ cmd.warned
    /\ cmd.d.status = "deployed"
    /\ ~cmd.args.yes
    /\ cmd.answer
    /\ Len(cmd.calls) = 2
    /\ cmd.exit = Some(0)

\* C25: the request of the list command has the status filter --status,
\* "scheduled" when neither --all nor --status is given, none when --all is
\* given alone, and provider, trigger and limit as given.
C25_ListFilterMapping ==
    (cmd.surface = "cli" /\ cmd.name = "list" /\ cmd.calls # <<>>) =>
        LET params == cmd.calls[1].payload
        IN  /\ cmd.calls[1].op = "list_deployments"
            /\ params.status = EffectiveStatus(cmd.args.all, cmd.args.status)
            /\ params.provider = cmd.args.provider
            /\ params.trigger = cmd.args.trigger
            /\ params.limit = cmd.args.limit

\* C26: _handle_response raises DeploymentAPIError(status, detail) from 400
\* on, returns {} for 204 and returns the parsed body otherwise; get_current
\* returns None for 404.
C26_ResponseMapping ==
    /\ api.op = "handle_response" =>
          LET status == api.response.status_code
              body == api.response.body
          IN  /\ status >= 400 =>
                    /\ api.result.exc = "DeploymentAPIError"
                    /\ api.result.status_code = status
                    /\ api.result.detail =
                          IF body.parses /\ body.val.type = "object"
                             /\ body.val.detail # Absent
                          THEN body.val.detail ELSE body.text
              /\ status = 204 => api.result = ApiReturn(EmptyDict)
              /\ (status < 400 /\ status # 204) =>
                    /\ api.result.exc = Absent
                    /\ api.result.value = body.val
    /\ (api.op = "get_current" /\ api.response.status_code = 404) =>
          api.result = ApiReturn(PyNone)

\* C30: call_tool always returns a text and lets no exception out: "Unknown
\* tool: <name>" with no handler run, "API error (<status>): <detail>" for
\* a DeploymentAPIError, the message for a ValueError, "Error: <message>"
\* for every other exception.
C30_CallToolTotal ==
    cmd.surface = "mcp" =>
        /\ cmd.exc = Absent
        /\ cmd.exit = None
        /\ cmd.pc = "done" =>
              /\ cmd.out # NoText
              /\ cmd.name \notin TOOL_HANDLERS =>
                    /\ cmd.out = Text("Unknown tool: ", 0, cmd.name)
                    /\ ~cmd.resolved
                    /\ cmd.calls = <<>>
              /\ cmd.raised = "DeploymentAPIError" =>
                    cmd.out = Text("API error", cmd.got.status_code, cmd.got.detail)
              /\ cmd.raised = "ValueError" =>
                    cmd.out = Text("", 0, NotAuthenticatedMsg)
              /\ cmd.raised = "JSONDecodeError" => cmd.out.kind = ""
              /\ cmd.raised \in {"KeyError", "TypeError", "AttributeError",
                                 "ConnectError"} =>
                    cmd.out.kind = "Error: "

\* a 404 with a detail, answered to get_deployment
C30_Witness ==
    /\ cmd.surface = "mcp"
    /\ cmd.name = "get_deployment"
    /\ cmd.pc = "done"
    /\ cmd.raised = "DeploymentAPIError"
    /\ cmd.out = Text("API error", 404, "denied")

----------------------------------------------------------------------------
(* store_credentials between its statements (SaveSpec) *)

\* the file holds the token that is being stored
HoldsToken(file, creds) ==
    /\ file.exists
    /\ get_stored_credentials(file) = Return(Some(creds))

\* group or other may read a file of this mode
GroupOrOtherRead(mode) == mode[2] >= 4 \/ mode[3] >= 4

\* C27: between the statements of store_credentials, a file that holds the
\* token is never readable by group or other, also when the file is new.
C27_NoExposureWindow ==
    (st.op \in {"mkdir", "write_text", "chmod"}
     /\ HoldsToken(credFile, st.creds[1]))
        => ~GroupOrOtherRead(credFile.mode)

\* the statements leave the file that store_credentials(file, creds) gives
SaveAgrees ==
    st.op = "chmod" =>
        credFile = store_credentials(st.fileBefore, st.creds[1])

----------------------------------------------------------------------------
(* The two membership fetches of a failed login or switch (Spec) *)

\* C28: when device_flow_login, pat_login or switch_organisation ends with
\* the not-a-member error for an organisation, the organisations its message
\* lists do not contain that organisation in any letter case, whatever the
\* second fetch of the memberships answered.
C28_DiagnosisConsistent ==
    \A rec \in {df, sw, pl} :
        (NotAMember(rec) /\ rec.outcome.exc = "ValueError") =>
            LET listed == ListedOrgs(rec.outcome.msg)
            IN  \A i \in 1..Len(listed) :
                    ~SameIgnoringCase(listed[i], rec.organisation)

----------------------------------------------------------------------------
(* A login and a switch on one credentials file (ConcSpec) *)

\* the Credentials the login returned, when it has succeeded
LoginRet ==
    IF pl.pc = "done" /\ pl.outcome.kind = "LOGGED_IN" THEN pl.outcome.ret
    ELSE IF df.pc = "done" /\ df.outcome.kind = "GRANTED" THEN df.outcome.ret
    ELSE None

BothSucceeded ==
    /\ LoginRet # None
    /\ sw.pc = "done"
    /\ sw.outcome.kind = "SWITCHED"

\* C29 as stated: once a login and a switch_organisation that ran at the
\* same time have both succeeded, the stored token is the token the login
\* wrote.
C29_NoLostUpdate ==
    BothSucceeded =>
        LET stored == get_stored_credentials(credFile).value
        IN  /\ stored # None
            /\ stored[1].github_token = LoginRet[1].github_token

\* C29: once a login and a switch_organisation that ran at the same time
\* have both succeeded, the file holds what one of the two stored: the
\* login's Credentials, or the ones the switch built from the Credentials it
\* had loaded (the file's old ones, or the login's) with its organisation;
\* the stored token differs from the login's exactly when the file holds
\* the switch's Credentials built from the old ones.
C29_LastWriterWins ==
    BothSucceeded =>
        LET stored == get_stored_credentials(credFile).value
            login == LoginRet[1]
            loaded == sw.creds[1]
            switched == [github_token |-> loaded.github_token,
                         organisation |-> sw.organisation,
                         username |-> loaded.username]
        IN  /\ stored # None
            /\ sw.outcome.ret = Some(switched)
            /\ loaded \in {OldCreds, login}
            /\ stored[1] \in {login, switched}
            /\ stored[1].github_token # login.github_token <=>
                  (stored[1] = switched /\ loaded = OldCreds)

\* pat_login("ghp_1", ...) has stored, and the switch that had loaded ghp_old
\* before has stored after it
C29_Witness ==
    /\ BothSucceeded
    /\ pl.outcome.kind = "LOGGED_IN"
    /\ pl.outcome.ret[1].github_token = "ghp_1"
    /\ sw.creds[1].github_token = "ghp_old"
    /\ get_stored_credentials(credFile) =
          Return(Some(Credentials("ghp_old", sw.organisation, "alice")))
====
